---- MODULE Spec2Model ----
(***************************************************************************)
(* A model of the stmharry database layer:                                 *)
(*   - DBWrapper.writer (database/core.py): the scoped write access and    *)
(*     its commit / rollback behaviour on the single aiosqlite connection; *)
(*   - SQLQueryBuilder (database/pypika_dialects.py): the ON CONFLICT,     *)
(*     RETURNING and WITH accumulators, the copy made by every builder     *)
(*     call, and the rendering of the clauses.                             *)
(***************************************************************************)
EXTENDS Integers, Sequences, FiniteSets, TLC

VARIABLES inTx, committed, working, stack, exc, last,
          heap, builders, blast,
          store, stored, slast, rlast,
          db, dlast

wvars == <<inTx, committed, working, stack, exc, last>>
bvars == <<heap, builders, blast>>
svars == <<store, stored, slast>>
dvars == <<db, dlast>>
vars == <<inTx, committed, working, stack, exc, last, heap, builders, blast,
          store, stored, slast, rlast, db, dlast>>

----------------------------------------------------------------------------
(* Bounds *)

MaxDepth == 2
MaxRows == 2
MaxBuilders == 3
MaxReturning == 3
MaxValue == 2
MaxKeys == 2
MaxCalls == 5
MaxCtes == 4
MaxDdl == 2
MaxUpserts == 6
MaxClauses == 5

----------------------------------------------------------------------------
(* DBWrapper: one connection, scoped write access *)

Tasks == {"t1", "t2"}
Rows == 1..MaxRows

\* How the body of a scope ends: it returns, it raises an error derived from
\* Exception, or it is cancelled (asyncio.CancelledError derives from
\* BaseException, not from Exception).
Ends == {"ok", "Exception", "Cancelled"}

NoCall == [op |-> "init", src |-> 0, args |-> <<>>]

\* No store, no store call and no call of the results module yet.
NoStore == [columns |-> <<>>, policy |-> "do_nothing"]

NoStoreCall == [op |-> "init"]

NoResultCall == [op |-> "init"]

\* No wrapper and no call on a wrapper yet.
NoWrapper == [handle |-> "None", closes |-> 0, calls |-> 0, scopes |-> 0]

NoWrapperCall == [op |-> "init"]

NoEvent ==
  [task |-> "t1", ev |-> "init", reuse |-> FALSE, how |-> "ok",
   ops |-> <<>>, snap |-> {}, wrote |-> {}]

\* WriterExit with the early return of the reuse branch lost.
WriterExit_NoReuseBranch(reuse, how) ==
  IF how = "Exception" THEN <<"rollback">>
  ELSE IF how = "ok" THEN <<"commit">>
  ELSE <<>>

\* The connection calls the writer() generator makes after its yield, for a
\* scope that found in_transaction = reuse at entry and whose body ended by
\* `how`.
WriterExit(reuse, how) ==
  IF reuse THEN <<>>
  ELSE IF how = "Exception" THEN <<"rollback">>
  ELSE IF how = "ok" THEN <<"commit">>
  ELSE <<>>

\* The connection after the calls in ops (at most one call per exit).
ConnAfter(ops) ==
  IF ops = <<>> THEN [inTx |-> inTx, committed |-> committed, working |-> working]
  ELSE IF ops[1] = "commit"
    THEN [inTx |-> FALSE, committed |-> working, working |-> working]
    ELSE [inTx |-> FALSE, committed |-> committed, working |-> committed]

\* What a statement read through the connection sees.
Read == working

\* async with db.writer(): the generator runs up to its yield.
WriterEnter(t) ==
  /\ exc[t] = "none"
  /\ Len(stack[t]) < MaxDepth
  /\ stack' = [stack EXCEPT ![t] =
                 <<[reuse |-> inTx, snap |-> committed, wrote |-> {}]>>
                 \o stack[t]]
  /\ last' = [task |-> t, ev |-> "enter", reuse |-> inTx, how |-> "ok",
              ops |-> <<>>, snap |-> committed, wrote |-> {}]
  /\ UNCHANGED <<inTx, committed, working, exc>>
  /\ UNCHANGED <<bvars, svars, rlast, dvars>>

\* The body executes a data-modifying statement: sqlite3 opens a transaction
\* implicitly before it.  `wrote` keeps, for every open scope of the task,
\* the rows written inside it.
Execute(t, r) ==
  /\ exc[t] = "none"
  /\ stack[t] # <<>>
  /\ working' = working \cup {r}
  /\ inTx' = TRUE
  /\ stack' = [stack EXCEPT ![t] =
                 [i \in 1..Len(stack[t]) |->
                    [stack[t][i] EXCEPT !.wrote = @ \cup {r}]]]
  /\ last' = [task |-> t, ev |-> "execute", reuse |-> Head(stack[t]).reuse,
              how |-> "ok", ops |-> <<>>, snap |-> Head(stack[t]).snap,
              wrote |-> Head(stack[t]).wrote \cup {r}]
  /\ UNCHANGED <<committed, exc>>
  /\ UNCHANGED <<bvars, svars, rlast, dvars>>

\* The innermost scope of t is left by `how`.
LeaveScope(t, how) ==
  LET s == Head(stack[t])
      ops == WriterExit(s.reuse, how)
      c == ConnAfter(ops)
  IN /\ inTx' = c.inTx
     /\ committed' = c.committed
     /\ working' = c.working
     /\ stack' = [stack EXCEPT ![t] = Tail(stack[t])]
     /\ exc' = [exc EXCEPT ![t] = IF how = "ok" THEN "none" ELSE how]
     /\ last' = [task |-> t, ev |-> "exit", reuse |-> s.reuse, how |-> how,
                 ops |-> ops, snap |-> s.snap, wrote |-> s.wrote]
     /\ UNCHANGED <<bvars, svars, rlast, dvars>>

BodyReturns(t) ==
  /\ exc[t] = "none"
  /\ stack[t] # <<>>
  /\ LeaveScope(t, "ok")

BodyRaises(t, e) ==
  /\ exc[t] = "none"
  /\ stack[t] # <<>>
  /\ LeaveScope(t, e)

\* An error that left an inner scope reaches the enclosing scope's yield.
Propagates(t) ==
  /\ exc[t] # "none"
  /\ stack[t] # <<>>
  /\ LeaveScope(t, exc[t])

\* The error is handled by the code around the scope it left.
Handles(t) ==
  /\ exc[t] # "none"
  /\ exc' = [exc EXCEPT ![t] = "none"]
  /\ last' = [last EXCEPT !.task = t, !.ev = "handle"]
  /\ UNCHANGED <<inTx, committed, working, stack>>
  /\ UNCHANGED <<bvars, svars, rlast, dvars>>

InitWriter ==
  /\ inTx = FALSE
  /\ committed \in SUBSET Rows
  /\ working = committed
  /\ stack = [t \in Tasks |-> <<>>]
  /\ exc = [t \in Tasks |-> "none"]
  /\ last = NoEvent
  /\ heap = <<>>
  /\ builders = <<>>
  /\ blast = NoCall
  /\ store = NoStore
  /\ stored = <<>>
  /\ slast = NoStoreCall
  /\ rlast = NoResultCall
  /\ db = NoWrapper
  /\ dlast = NoWrapperCall

\* One caller at a time: every scope is opened and left by the same task.
NextWriter ==
  \/ \E t \in {"t1"} : WriterEnter(t)
  \/ \E t \in {"t1"} : \E r \in Rows : Execute(t, r)
  \/ \E t \in {"t1"} : BodyReturns(t)
  \/ \E t \in {"t1"} : \E e \in Ends \ {"ok"} : BodyRaises(t, e)
  \/ \E t \in {"t1"} : Propagates(t)
  \/ \E t \in {"t1"} : Handles(t)

SpecWriter == InitWriter /\ [][NextWriter]_vars

\* A task that is in no writer() scope enters one.
TaskEnter(t) ==
  /\ stack[t] = <<>>
  /\ WriterEnter(t)

\* Two tasks share the wrapper; each runs top-level writer() scopes, and the
\* steps of the two interleave at the awaits of the bodies.
NextTasks ==
  \/ \E t \in Tasks : TaskEnter(t)
  \/ \E t \in Tasks : \E r \in Rows : Execute(t, r)
  \/ \E t \in Tasks : BodyReturns(t)
  \/ \E t \in Tasks : BodyRaises(t, "Exception")
  \/ \E t \in Tasks : Handles(t)

SpecTasks == InitWriter /\ [][NextTasks]_vars

----------------------------------------------------------------------------
(* SQLQueryBuilder: accumulators, the copy made by @builder, the calls *)

\* The statement a builder was started as: into(t), from_(t).select(..),
\* update(t), from_(t).delete().  "t" is the statement's table, "u" another.
Kinds == {"insert", "select", "update", "delete"}

insert_table(b) == IF b.kind = "insert" THEN "t" ELSE "None"
update_table(b) == IF b.kind = "update" THEN "t" ELSE "None"
delete_from(b) == b.kind = "delete"
from_(b) == IF b.kind \in {"select", "delete"} THEN {"t"} ELSE {}

\* SQLQueryBuilder.__init__: every list attribute is a fresh list object;
\* heap[r] is the content of list object r.
NewHeap == <<<<>>, <<>>, <<>>, <<>>>>

NewBuilder(k) ==
  [kind |-> k,
   on_conflict |-> FALSE, on_conflict_fields |-> 1,
   on_conflict_do_nothing |-> FALSE, on_conflict_do_updates |-> 2,
   on_conflict_wheres |-> <<>>, on_conflict_do_update_wheres |-> <<>>,
   wheres |-> <<>>,
   returns |-> 3, return_star |-> FALSE,
   with_ |-> 4, with_recursive |-> FALSE]

Okay(h, b) == [h |-> h, b |-> b, err |-> "none"]
Raise(h, b, e) == [h |-> h, b |-> b, err |-> e]

ListAppend(h, r, x) == [h EXCEPT ![r] = Append(h[r], x)]

\* __copy__: the attributes are copied shallowly (the new builder refers to
\* the same objects), then _with, _returns and _on_conflict_do_updates are
\* replaced by copies of the lists.  _on_conflict_fields is not.
Copy(h, b) ==
  [h |-> h \o <<h[b.returns], h[b.on_conflict_do_updates], h[b.with_]>>,
   b |-> [b EXCEPT !.returns = Len(h) + 1,
                   !.on_conflict_do_updates = Len(h) + 2,
                   !.with_ = Len(h) + 3]]

\* with_aliased_query with the marker set to that of the last call.
with_aliased_query_LastWins(h, b, name, recursive) ==
  Okay(ListAppend(h, b.with_, name), [b EXCEPT !.with_recursive = recursive])

\* with_aliased_query(aliased_query, recursive)
with_aliased_query(h, b, name, recursive) ==
  Okay(ListAppend(h, b.with_, name),
       [b EXCEPT !.with_recursive = b.with_recursive \/ recursive])

RECURSIVE AppendFields(_, _, _)
AppendFields(h, r, tf) ==
  IF tf = <<>> THEN h
  ELSE AppendFields(
         IF Head(tf).cls \in {"str", "Term"}
           THEN ListAppend(h, r, Head(tf).name) ELSE h,
         r, Tail(tf))

\* on_conflict(*target_fields)
on_conflict(h, b, tf) ==
  IF insert_table(b) = "None"
  THEN Raise(h, b, "On conflict only applies to insert query")
  ELSE Okay(AppendFields(h, b.on_conflict_fields, tf),
            [b EXCEPT !.on_conflict = TRUE])

\* do_nothing without the check for declared updates.
do_nothing_Unchecked(h, b) ==
  Okay(h, [b EXCEPT !.on_conflict_do_nothing = TRUE])

\* do_nothing()
do_nothing(h, b) ==
  IF Len(h[b.on_conflict_do_updates]) > 0
  THEN Raise(h, b, "Can not have two conflict handlers")
  ELSE Okay(h, [b EXCEPT !.on_conflict_do_nothing = TRUE])

\* _conflict_field_str(term)
conflict_field_str(b, term) ==
  IF insert_table(b) # "None" THEN term ELSE "None"

\* do_update(update_field, update_value)
do_update(h, b, uf, uv) ==
  IF b.on_conflict_do_nothing
  THEN Raise(h, b, "Can not have two conflict handlers")
  ELSE IF uf.cls \notin {"str", "Field"}
  THEN Raise(h, b, "Unsupported update_field")
  ELSE LET field == IF uf.cls = "str" THEN conflict_field_str(b, uf.name)
                    ELSE uf.name
       IN Okay(ListAppend(h, b.on_conflict_do_updates,
                          [field |-> field, value |-> uv]), b)

\* QueryBuilder.where(criterion), itself a builder call: it works on a copy.
base_where(h, b, c) ==
  LET n == Copy(h, b)
  IN IF c = "Empty" THEN Okay(n.h, n.b)
     ELSE Okay(n.h, [n.b EXCEPT !.wheres = Append(n.b.wheres, c)])

\* where(criterion) without the check for a declared DO NOTHING.
where_NoDoNothingCheck(h, b, c) ==
  IF ~b.on_conflict THEN base_where(h, b, c)
  ELSE IF c = "Empty" THEN Okay(h, b)
  ELSE IF h[b.on_conflict_fields] # <<>> /\ h[b.on_conflict_do_updates] # <<>>
  THEN Okay(h, [b EXCEPT !.on_conflict_do_update_wheres =
                           Append(b.on_conflict_do_update_wheres, c)])
  ELSE IF h[b.on_conflict_fields] # <<>>
  THEN Okay(h, [b EXCEPT !.on_conflict_wheres =
                           Append(b.on_conflict_wheres, c)])
  ELSE Raise(h, b, "Can not have fieldless ON CONFLICT WHERE")

\* where(criterion) with every predicate of a conflict clause put on the
\* conflict target, whether or not an update was declared.
where_TargetOnly(h, b, c) ==
  IF ~b.on_conflict THEN base_where(h, b, c)
  ELSE IF c = "Empty" THEN Okay(h, b)
  ELSE IF b.on_conflict_do_nothing
  THEN Raise(h, b, "DO NOTHING doest not support WHERE")
  ELSE IF h[b.on_conflict_fields] # <<>>
  THEN Okay(h, [b EXCEPT !.on_conflict_wheres =
                           Append(b.on_conflict_wheres, c)])
  ELSE Raise(h, b, "Can not have fieldless ON CONFLICT WHERE")

\* where(criterion)
where(h, b, c) ==
  IF ~b.on_conflict THEN base_where(h, b, c)
  ELSE IF c = "Empty" THEN Okay(h, b)
  ELSE IF b.on_conflict_do_nothing
  THEN Raise(h, b, "DO NOTHING doest not support WHERE")
  ELSE IF h[b.on_conflict_fields] # <<>> /\ h[b.on_conflict_do_updates] # <<>>
  THEN Okay(h, [b EXCEPT !.on_conflict_do_update_wheres =
                           Append(b.on_conflict_do_update_wheres, c)])
  ELSE IF h[b.on_conflict_fields] # <<>>
  THEN Okay(h, [b EXCEPT !.on_conflict_wheres =
                           Append(b.on_conflict_wheres, c)])
  ELSE Raise(h, b, "Can not have fieldless ON CONFLICT WHERE")

\* A term as stored in _returns: cls is the class of the object, table the
\* table of the field it refers to ("None": a field without table, "NoField":
\* an expression over no field).  Field and Star objects have a `table`
\* attribute, Function and ValueWrapper objects have none.
StoredTerm(cls, name, table) == [cls |-> cls, name |-> name, table |-> table]

HasTableAttr(x) == x.cls \in {"Field", "Star"}

\* term.fields_() and term.tables_, as the tables of the fields found.
FieldTables(x) ==
  IF x.cls \in {"Field", "Star"} THEN {x.table}
  ELSE IF x.cls = "Function" /\ x.table # "NoField" THEN {x.table}
  ELSE {}

\* _validate_returning_term(term): "none" or the error raised.
validate_returning_term(b, x) ==
  IF FieldTables(x) = {} THEN "none"
  ELSE IF ~(insert_table(b) # "None" \/ update_table(b) # "None"
            \/ delete_from(b))
  THEN "Returning can't be used in this query"
  ELSE IF \E f \in FieldTables(x) :
            /\ f \notin {insert_table(b), update_table(b)}
            /\ FieldTables(x) \ from_(b) # {}
  THEN "You can't return from other tables"
  ELSE "none"

NoTableAttr(x) == ~HasTableAttr(x)

WithoutTableAttr(q) == SelectSeq(q, NoTableAttr)

\* _set_returns_for_star(): _returns is bound to a new, filtered list.
set_returns_for_star(h, b) ==
  Okay(h \o <<WithoutTableAttr(h[b.returns])>>,
       [b EXCEPT !.returns = Len(h) + 1, !.return_star = TRUE])

\* _return_field without the early return once a star was added.
return_field_NoStarCheck(h, b, x) ==
  IF validate_returning_term(b, x) # "none"
  THEN Raise(h, b, validate_returning_term(b, x))
  ELSE LET s == IF x.cls = "Star" THEN set_returns_for_star(h, b)
                ELSE Okay(h, b)
       IN Okay(ListAppend(s.h, s.b.returns, x), s.b)

\* _return_field(term)
return_field(h, b, x) ==
  IF b.return_star THEN Okay(h, b)
  ELSE IF validate_returning_term(b, x) # "none"
  THEN Raise(h, b, validate_returning_term(b, x))
  ELSE LET s == IF x.cls = "Star" THEN set_returns_for_star(h, b)
                ELSE Okay(h, b)
       IN Okay(ListAppend(s.h, s.b.returns, x), s.b)

\* _return_field_str(term)
return_field_str(h, b, name) ==
  IF name = "*"
  THEN LET s == set_returns_for_star(h, b)
       IN Okay(ListAppend(s.h, s.b.returns, StoredTerm("Star", "*", "None")),
               s.b)
  ELSE IF insert_table(b) # "None"
  THEN return_field(h, b, StoredTerm("Field", name, insert_table(b)))
  ELSE IF update_table(b) # "None"
  THEN return_field(h, b, StoredTerm("Field", name, update_table(b)))
  ELSE IF delete_from(b)
  THEN return_field(h, b, StoredTerm("Field", name, "t"))
  ELSE Raise(h, b, "Returning can't be used in this query")

\* _return_other(function)
return_other(h, b, x) ==
  IF validate_returning_term(b, x) # "none"
  THEN Raise(h, b, validate_returning_term(b, x))
  ELSE Okay(ListAppend(h, b.returns, x), b)

\* One round of the loop of returning(*terms).  An argument is a Field or
\* Star object, a str, a Function (agg: is_aggregate) or any other value
\* ("const"), which wrap_constant turns into a ValueWrapper.
returning_one(h, b, a) ==
  IF a.cls \in {"Field", "Star"}
  THEN return_field(h, b, StoredTerm(a.cls, a.name, a.table))
  ELSE IF a.cls = "str" THEN return_field_str(h, b, a.name)
  ELSE IF a.cls = "Function"
  THEN IF a.agg
       THEN Raise(h, b, "Aggregate functions are not allowed in returning")
       ELSE return_other(h, b, StoredTerm("Function", a.name, a.table))
  ELSE return_other(h, b, StoredTerm("ValueWrapper", a.name, "NoField"))

\* returning(*terms)
RECURSIVE returning(_, _, _)
returning(h, b, terms) ==
  IF terms = <<>> THEN Okay(h, b)
  ELSE LET r == returning_one(h, b, Head(terms))
       IN IF r.err # "none" THEN r ELSE returning(r.h, r.b, Tail(terms))

----------------------------------------------------------------------------
(* SQLQueryBuilder: rendering.  SQL text is a sequence of tokens. *)

Sql(q) == [err |-> "none", sql |-> q]
SqlError(e) == [err |-> e, sql |-> <<>>]

RECURSIVE Join(_, _)
Join(q, sep) ==
  IF q = <<>> THEN <<>>
  ELSE IF Len(q) = 1 THEN q[1]
  ELSE q[1] \o <<sep>> \o Join(Tail(q), sep)

\* _with_sql(): one token per CTE, in list order.
with_sql(h, b) ==
  <<IF b.with_recursive THEN "WITH RECURSIVE" ELSE "WITH">>
  \o Join([i \in 1..Len(h[b.with_]) |-> <<h[b.with_][i]>>], ",")

WhereSql(w) ==
  IF w # <<>> THEN <<"WHERE">> \o Join([i \in 1..Len(w) |-> <<w[i]>>], "AND")
  ELSE <<>>

\* QueryBuilder.get_sql(): the WITH clause, the statement and its WHERE.
base_sql(h, b) ==
  (IF h[b.with_] # <<>> THEN with_sql(h, b) ELSE <<>>)
  \o <<CASE b.kind = "insert" -> "INSERT INTO t"
         [] b.kind = "select" -> "SELECT FROM t"
         [] b.kind = "update" -> "UPDATE t"
         [] OTHER -> "DELETE FROM t">>
  \o WhereSql(b.wheres)

\* _on_conflict_sql without the check for a fieldless DO UPDATE.
on_conflict_sql_NoFieldlessCheck(h, b) ==
  LET fields == h[b.on_conflict_fields]
      updates == h[b.on_conflict_do_updates]
  IN IF ~b.on_conflict_do_nothing /\ Len(updates) = 0
     THEN IF fields = <<>> THEN Sql(<<>>)
          ELSE SqlError("No handler defined for on conflict")
     ELSE Sql(<<"ON CONFLICT">>
              \o (IF fields # <<>>
                  THEN <<"(">>
                       \o Join([i \in 1..Len(fields) |-> <<fields[i]>>], ",")
                       \o <<")">>
                  ELSE <<>>)
              \o WhereSql(b.on_conflict_wheres))

\* _on_conflict_sql()
on_conflict_sql(h, b) ==
  LET fields == h[b.on_conflict_fields]
      updates == h[b.on_conflict_do_updates]
  IN IF ~b.on_conflict_do_nothing /\ Len(updates) = 0
     THEN IF fields = <<>> THEN Sql(<<>>)
          ELSE SqlError("No handler defined for on conflict")
     ELSE IF updates # <<>> /\ fields = <<>>
     THEN SqlError("Can not have fieldless on conflict do update")
     ELSE Sql(<<"ON CONFLICT">>
              \o (IF fields # <<>>
                  THEN <<"(">>
                       \o Join([i \in 1..Len(fields) |-> <<fields[i]>>], ",")
                       \o <<")">>
                  ELSE <<>>)
              \o WhereSql(b.on_conflict_wheres))

\* One assignment of DO UPDATE SET.
UpdateSql(u) ==
  IF u.value # "None" THEN <<u.field, "=", u.value>>
  ELSE <<u.field, "=", "EXCLUDED", u.field>>

\* _on_conflict_action_sql()
on_conflict_action_sql(h, b) ==
  LET updates == h[b.on_conflict_do_updates]
  IN IF b.on_conflict_do_nothing THEN Sql(<<"DO NOTHING">>)
     ELSE IF Len(updates) > 0
     THEN IF \E i \in 1..Len(updates) : updates[i].field = "None"
          THEN SqlError("AttributeError")
          ELSE Sql(<<"DO UPDATE SET">>
                   \o Join([i \in 1..Len(updates) |-> UpdateSql(updates[i])],
                           ",")
                   \o WhereSql(b.on_conflict_do_update_wheres))
     ELSE Sql(<<>>)

\* _returning_sql()
returning_sql(h, b) ==
  <<"RETURNING">>
  \o Join([i \in 1..Len(h[b.returns]) |-> <<h[b.returns][i].name>>], ",")

\* get_sql() with the RETURNING clause put before the conflict clause.
get_sql_ReturningFirst(h, b) ==
  LET c == on_conflict_sql(h, b)
      a == on_conflict_action_sql(h, b)
  IN IF c.err # "none" THEN c
     ELSE IF a.err # "none" THEN a
     ELSE Sql(base_sql(h, b)
              \o (IF h[b.returns] # <<>> THEN returning_sql(h, b) ELSE <<>>)
              \o c.sql \o a.sql)

\* get_sql()
get_sql(h, b) ==
  LET c == on_conflict_sql(h, b)
      a == on_conflict_action_sql(h, b)
  IN IF c.err # "none" THEN c
     ELSE IF a.err # "none" THEN a
     ELSE Sql(base_sql(h, b) \o c.sql \o a.sql
              \o (IF h[b.returns] # <<>> THEN returning_sql(h, b) ELSE <<>>))

----------------------------------------------------------------------------
(* SQLQueryBuilder: the calls as steps.  builders holds every builder made
   so far, each call works on a copy of the builder it is called on. *)

Str(n) == [cls |-> "str", name |-> n, table |-> "None", agg |-> FALSE]
FieldOf(n, t) == [cls |-> "Field", name |-> n, table |-> t, agg |-> FALSE]
StarOf(t) == [cls |-> "Star", name |-> "*", table |-> t, agg |-> FALSE]
Func(n, t, g) == [cls |-> "Function", name |-> n, table |-> t, agg |-> g]
Const(n) == [cls |-> "const", name |-> n, table |-> "NoField", agg |-> FALSE]

ConflictTargets == {<<>>, <<Str("id")>>}

UpdateArgs ==
  {<<Str("a"), "None">>, <<FieldOf("a", "t"), "None">>,
   <<Str("a"), "1">>, <<Const("42"), "None">>}

Criteria == {"c1", "Empty"}

\* Arguments of returning(...) in runs that mix all the calls.
ReturningArgs ==
  {<<FieldOf("a", "t")>>, <<Str("a")>>, <<Str("*")>>, <<Const("1")>>,
   <<Str("a"), Str("*")>>}

\* Arguments of returning(...) in runs of returning(...) calls only.
ReturningTerms ==
  {<<FieldOf("a", "t")>>, <<FieldOf("a", "u")>>, <<Str("a")>>, <<Str("*")>>,
   <<StarOf("t")>>, <<Const("1")>>, <<Func("f", "t", FALSE)>>,
   <<Func("now", "NoField", FALSE)>>, <<Func("sum", "t", TRUE)>>,
   <<Const("1"), FieldOf("a", "t")>>}

CteNames == {"q1"}

\* The arguments of with_aliased_query(aliased_query, recursive).
Cte(n, recursive) ==
  [cls |-> "AliasedQuery", name |-> n, table |-> "None", agg |-> FALSE,
   recursive |-> recursive]

\* The list objects some builder still refers to.
Refs(bs) ==
  UNION {{bs[i].on_conflict_fields, bs[i].on_conflict_do_updates,
          bs[i].returns, bs[i].with_} : i \in DOMAIN bs}

Rank(L, r) == Cardinality({x \in L : x <= r})

\* List objects no builder refers to are dropped and the rest renumbered.
CollectHeap(h, bs) ==
  LET L == Refs(bs)
  IN [k \in 1..Cardinality(L) |-> h[CHOOSE r \in L : Rank(L, r) = k]]

CollectBuilders(bs) ==
  LET L == Refs(bs)
  IN [i \in DOMAIN bs |->
        [bs[i] EXCEPT !.on_conflict_fields = Rank(L, @),
                      !.on_conflict_do_updates = Rank(L, @),
                      !.returns = Rank(L, @),
                      !.with_ = Rank(L, @)]]

\* The @builder decorator: the call ran on a copy of builders[i] and gave r.
\* If it raised, the copy is dropped and the caller holds no new builder;
\* otherwise the copy is the new builder.  max bounds the number of builders
\* a run makes.
BuilderCall(i, op, args, r, max) ==
  LET bs == IF r.err = "none" THEN Append(builders, r.b) ELSE builders
  IN /\ Len(builders) < max
     /\ builders' = CollectBuilders(bs)
     /\ heap' = CollectHeap(r.h, bs)
     /\ blast' = IF r.err = "none" THEN [op |-> op, src |-> i, args |-> args]
                 ELSE blast
     /\ UNCHANGED <<wvars, svars, rlast, dvars>>

CallOnConflict(i, tf, max) ==
  LET c == Copy(heap, builders[i])
  IN BuilderCall(i, "on_conflict", tf, on_conflict(c.h, c.b, tf), max)

CallDoNothing(i, max) ==
  LET c == Copy(heap, builders[i])
  IN BuilderCall(i, "do_nothing", <<>>, do_nothing(c.h, c.b), max)

CallDoUpdate(i, uf, uv, max) ==
  LET c == Copy(heap, builders[i])
  IN BuilderCall(i, "do_update", <<uf>>, do_update(c.h, c.b, uf, uv), max)

CallWhere(i, crit, max) ==
  LET c == Copy(heap, builders[i])
  IN BuilderCall(i, "where", <<Str(crit)>>, where(c.h, c.b, crit), max)

CallReturning(i, terms, max) ==
  LET c == Copy(heap, builders[i])
  IN BuilderCall(i, "returning", terms, returning(c.h, c.b, terms), max)

CallWithAliasedQuery(i, n, recursive, max) ==
  LET c == Copy(heap, builders[i])
  IN BuilderCall(i, "with_aliased_query", <<Cte(n, recursive)>>,
                 with_aliased_query(c.h, c.b, n, recursive), max)

InitBuilder ==
  /\ inTx = FALSE
  /\ committed = {}
  /\ working = {}
  /\ stack = [t \in Tasks |-> <<>>]
  /\ exc = [t \in Tasks |-> "none"]
  /\ last = NoEvent
  /\ heap = NewHeap
  /\ \E k \in Kinds : builders = <<NewBuilder(k)>>
  /\ blast = NoCall
  /\ store = NoStore
  /\ stored = <<>>
  /\ slast = NoStoreCall
  /\ rlast = NoResultCall
  /\ db = NoWrapper
  /\ dlast = NoWrapperCall

\* Any call on any builder made so far.
NextBuilder ==
  \/ \E i \in 1..Len(builders) : \E tf \in ConflictTargets :
       CallOnConflict(i, tf, MaxBuilders)
  \/ \E i \in 1..Len(builders) : CallDoNothing(i, MaxBuilders)
  \/ \E i \in 1..Len(builders) : \E u \in UpdateArgs :
       CallDoUpdate(i, u[1], u[2], MaxBuilders)
  \/ \E i \in 1..Len(builders) : \E crit \in Criteria :
       CallWhere(i, crit, MaxBuilders)
  \/ \E i \in 1..Len(builders) : \E terms \in ReturningArgs :
       CallReturning(i, terms, MaxBuilders)
  \/ \E i \in 1..Len(builders) : \E n \in CteNames : \E recursive \in BOOLEAN :
       CallWithAliasedQuery(i, n, recursive, MaxBuilders)

SpecBuilder == InitBuilder /\ [][NextBuilder]_vars

\* The builder a chain of calls has reached.
Latest == {Len(builders)}

\* The calls that build a conflict clause, as a chain: each call is made on
\* the builder the call before it returned.
NextConflict ==
  \/ \E i \in Latest : CallOnConflict(i, <<Str("id")>>, MaxUpserts)
  \/ \E i \in Latest : CallDoNothing(i, MaxUpserts)
  \/ \E i \in Latest : CallDoUpdate(i, Str("a"), "None", MaxUpserts)
  \/ \E i \in Latest : \E crit \in {"c1", "c2", "Empty"} :
       CallWhere(i, crit, MaxUpserts)

SpecConflict == InitBuilder /\ [][NextConflict]_vars

\* A statement built clause by clause, as a chain of calls.
NextRender ==
  \/ \E i \in Latest : CallWithAliasedQuery(i, "q1", FALSE, MaxClauses)
  \/ \E i \in Latest : CallOnConflict(i, <<Str("id")>>, MaxClauses)
  \/ \E i \in Latest : CallDoNothing(i, MaxClauses)
  \/ \E i \in Latest : CallDoUpdate(i, Str("a"), "None", MaxClauses)
  \/ \E i \in Latest : CallWhere(i, "c1", MaxClauses)
  \/ \E i \in Latest : CallReturning(i, <<Str("id")>>, MaxClauses)

SpecRender == InitBuilder /\ [][NextRender]_vars

\* returning(...) calls only, on any builder made so far.
NextReturning ==
  \E i \in 1..Len(builders) :
    \E terms \in ReturningTerms : CallReturning(i, terms, MaxReturning)

SpecReturning == InitBuilder /\ [][NextReturning]_vars

\* with_aliased_query(..) calls only, with two CTEs to tell apart.
NextWith ==
  \E i \in 1..Len(builders) : \E n \in {"q1", "q2"} :
    \E recursive \in BOOLEAN : CallWithAliasedQuery(i, n, recursive, MaxCtes)

SpecWith == InitBuilder /\ [][NextWith]_vars

----------------------------------------------------------------------------
(* Claims about DBWrapper.writer *)

TopExit == last.ev = "exit" /\ ~last.reuse
NestedExit == last.ev = "exit" /\ last.reuse

\* C1: when a top-level writer() scope is left, exactly one of commit and
\* rollback has run: commit if the body returned, rollback (and the error
\* re-raised) if the body raised, on every exit path.
C1_ExactlyOneOfCommitRollback ==
  TopExit =>
    IF last.how = "ok"
    THEN last.ops = <<"commit">> /\ exc[last.task] = "none"
    ELSE last.ops = <<"rollback">> /\ exc[last.task] = last.how

\* While a scope that reuses the transaction is open, the transaction is open.
NestedOpenInTx ==
  \A t \in Tasks : \A i \in 1..Len(stack[t]) : stack[t][i].reuse => inTx

\* A step that leaves a scope that reuses the transaction calls nothing on
\* the connection and leaves it as it is.
NestedExitIsNoop ==
  (last'.ev = "exit" /\ last'.reuse) =>
    /\ last'.ops = <<>>
    /\ UNCHANGED <<inTx, committed, working>>

\* C2: a writer() scope entered while the connection is in a transaction
\* performs neither commit nor rollback when it is left, by return or by an
\* error, and while such a scope is open the transaction stays open.
C2_NestedScopeReusesTransaction ==
  /\ []NestedOpenInTx
  /\ [][NestedExitIsNoop]_vars

\* A nested scope was left by an error, its enclosing top-level scope is
\* still open, and the transaction with its uncommitted write is still open.
C2_Witness ==
  /\ NestedExit
  /\ last.how = "Exception"
  /\ stack[last.task] # <<>>
  /\ ~Head(stack[last.task]).reuse
  /\ inTx
  /\ working # committed

\* C3: after a top-level writer() scope whose body raised an error has been
\* left, the store, re-read, is in the committed state it had when the scope
\* was entered.
C3_RaiseRestoresCommittedState ==
  (TopExit /\ last.how = "Exception") =>
    (committed = last.snap /\ Read = last.snap)

\* C4: when the body of a top-level writer() scope is cancelled, a rollback
\* runs before the scope is left and the connection is not left in a
\* transaction.
C4_CancelRollsBack ==
  (TopExit /\ last.how = "Cancelled") =>
    (last.ops = <<"rollback">> /\ ~inTx /\ working = committed)

----------------------------------------------------------------------------
(* Claims about SQLQueryBuilder *)

Builders == 1..Len(builders)

\* The lists of a builder, by content.
Fields(h, b) == h[b.on_conflict_fields]
Updates(h, b) == h[b.on_conflict_do_updates]
Returns(h, b) == h[b.returns]
Ctes(h, b) == h[b.with_]

\* What do_nothing() / do_update(..) / returning(..) called on builders[i]
\* in the current state raises ("none": nothing).
DoNothingErr(i) ==
  LET c == Copy(heap, builders[i]) IN do_nothing(c.h, c.b).err

DoUpdateErr(i, u) ==
  LET c == Copy(heap, builders[i]) IN do_update(c.h, c.b, u[1], u[2]).err

HasToken(q, tok) == \E k \in 1..Len(q) : q[k] = tok

\* C5: no builder has both the do-nothing flag and a non-empty list of
\* updates; do_nothing raises on a builder with updates and do_update raises
\* on a builder with the do-nothing flag.
C5_OneConflictHandler ==
  \A i \in Builders :
    LET b == builders[i]
    IN /\ ~(b.on_conflict_do_nothing /\ Updates(heap, b) # <<>>)
       /\ Updates(heap, b) # <<>> =>
            DoNothingErr(i) = "Can not have two conflict handlers"
       /\ b.on_conflict_do_nothing =>
            \A u \in UpdateArgs :
              DoUpdateErr(i, u) = "Can not have two conflict handlers"

\* do_update has made a builder with an update, and do_nothing on it raises.
C5_Witness ==
  /\ blast.op = "do_update"
  /\ Updates(heap, builders[Len(builders)]) # <<>>
  /\ DoNothingErr(Len(builders)) = "Can not have two conflict handlers"
  /\ \E i \in Builders : builders[i].on_conflict_do_nothing

\* C6 as stated: do_update on a builder on which on_conflict was not called
\* raises at the call, so no do_update call on such a builder returns one.
C6_DoUpdateWithoutOnConflictRaises ==
  blast.op = "do_update" => builders[blast.src].on_conflict

\* C6 amended: do_update raises at the call exactly when do_nothing was
\* declared or the update field is neither a name nor a Field, whether or not
\* on_conflict was called; a builder with updates and an empty list of
\* conflict target fields raises when it is rendered.
C6_FieldlessUpdateFailsAtRendering ==
  \A i \in Builders :
    LET b == builders[i]
    IN /\ \A u \in UpdateArgs :
            (DoUpdateErr(i, u) # "none") <=>
              (b.on_conflict_do_nothing \/ u[1].cls \notin {"str", "Field"})
       /\ (Updates(heap, b) # <<>> /\ Fields(heap, b) = <<>>) =>
            get_sql(heap, b).err =
              "Can not have fieldless on conflict do update"

\* do_update was called on a builder without on_conflict and made a builder,
\* which does not render.
C6_Witness ==
  LET b == builders[Len(builders)]
  IN /\ blast.op = "do_update"
     /\ ~b.on_conflict
     /\ Updates(heap, b) # <<>>
     /\ Fields(heap, b) = <<>>
     /\ get_sql(heap, b).err = "Can not have fieldless on conflict do update"

\* C7: an insert builder with on_conflict called on at least one field does
\* not render before a terminal action is declared and renders ON CONFLICT
\* ( fields ) DO NOTHING / DO UPDATE SET after; a builder on which no upsert
\* call was made renders no conflict clause.
C7_ConflictClauseRendering ==
  \A i \in Builders :
    LET b == builders[i]
        r == get_sql(heap, b)
        terminal == b.on_conflict_do_nothing \/ Updates(heap, b) # <<>>
    IN b.kind = "insert" =>
         /\ (b.on_conflict /\ Fields(heap, b) # <<>> /\ ~terminal) =>
              r.err # "none"
         /\ (b.on_conflict /\ Fields(heap, b) # <<>> /\ terminal) =>
              /\ r.err = "none"
              /\ HasToken(r.sql, "ON CONFLICT")
              /\ HasToken(r.sql, "DO NOTHING") <=> b.on_conflict_do_nothing
              /\ HasToken(r.sql, "DO UPDATE SET") <=> Updates(heap, b) # <<>>
         /\ (~b.on_conflict /\ ~terminal) =>
              /\ r.err = "none"
              /\ ~HasToken(r.sql, "ON CONFLICT")

\* The accumulators of a builder and what it renders.
Observed(h, b) ==
  [fields |-> Fields(h, b), updates |-> Updates(h, b),
   returns |-> Returns(h, b), ctes |-> Ctes(h, b), sql |-> get_sql(h, b)]

\* C8: a builder call changes neither the accumulators nor the rendering of
\* any builder that exists when it is made, the one it is called on included.
C8_CallsDoNotMutate ==
  [][\A i \in Builders :
       Observed(heap', builders'[i]) = Observed(heap, builders[i])]_vars

\* C9: returning(..) on a select builder raises, whatever the term, so no
\* returning call on a select builder returns a builder.
C9_ReturningOnSelectRaises ==
  blast.op = "returning" => builders[blast.src].kind # "select"

\* The number of terms of the RETURNING clause of a rendered statement.
ReturningTermCount(r) ==
  IF r.err # "none" \/ ~HasToken(r.sql, "RETURNING") THEN 0
  ELSE LET p == CHOOSE k \in 1..Len(r.sql) : r.sql[k] = "RETURNING"
       IN Cardinality({k \in (p + 1)..Len(r.sql) : r.sql[k] # ","})

IsQualifiedFieldArg(a) ==
  (a.cls = "Field" /\ a.table # "None") \/ (a.cls = "str" /\ a.name # "*")

\* A returning(..) call that made a builder: if the builder it was called on
\* has the star and every argument is a table-qualified field or a field
\* name, the terms and the number of rendered terms are as before; if the
\* argument is the star, every term without a table is kept.
StarAbsorbs ==
  (Len(builders') = Len(builders) + 1 /\ blast'.op = "returning") =>
    LET src == builders[blast'.src]
        new == builders'[Len(builders')]
        old == Returns(heap, src)
    IN /\ (src.return_star
           /\ \A k \in 1..Len(blast'.args) :
                IsQualifiedFieldArg(blast'.args[k]))
          => /\ Returns(heap', new) = old
             /\ ReturningTermCount(get_sql(heap', new))
                  = ReturningTermCount(get_sql(heap, src))
       /\ blast'.args = <<Str("*")>> =>
            /\ new.return_star
            /\ \A k \in 1..Len(old) :
                 old[k].cls \notin {"Field", "Star"} =>
                   \E j \in 1..Len(Returns(heap', new)) :
                     Returns(heap', new)[j] = old[k]

\* A builder that has the star holds no Field term and exactly one star.
StarReplacesFields ==
  \A i \in Builders :
    LET q == Returns(heap, builders[i])
    IN builders[i].return_star =>
         /\ \A k \in 1..Len(q) : q[k].cls # "Field"
         /\ Cardinality({k \in 1..Len(q) : q[k].cls = "Star"}) = 1

\* C10: a returning(..) of table-qualified fields or field names on a
\* builder that has the star leaves the returning terms, and the number of
\* rendered terms, as they are; the terms with a table that were added before
\* the star are gone once the star is added.
C10_StarAbsorbsQualifiedTerms ==
  /\ []StarReplacesFields
  /\ [][StarAbsorbs]_vars

\* returning(<field of t>) was called on a builder that has the star, and made
\* a builder with the same terms.
C10_Witness ==
  LET src == builders[blast.src]
      new == builders[Len(builders)]
  IN /\ blast.op = "returning"
     /\ blast.args = <<FieldOf("a", "t")>>
     /\ src.return_star
     /\ Returns(heap, src) # <<>>
     /\ Returns(heap, new) = Returns(heap, src)
     /\ ReturningTermCount(get_sql(heap, new)) = Len(Returns(heap, src))

\* What where(c) called on builders[i] in the current state raises.
WhereErr(i, c) ==
  LET n == Copy(heap, builders[i]) IN where(n.h, n.b, c).err

\* The predicates a builder holds.
Predicates(b) ==
  <<b.wheres, b.on_conflict_wheres, b.on_conflict_do_update_wheres>>

\* C11 as stated: where(criterion) on a builder with on_conflict called and
\* either do_nothing set or no conflict target field raises for every
\* criterion, so no where call on such a builder returns one.
C11_WhereRaisesForEveryCriterion ==
  blast.op = "where" =>
    LET src == builders[blast.src]
    IN ~(src.on_conflict
         /\ (src.on_conflict_do_nothing \/ Fields(heap, src) = <<>>))

\* C11 amended: on a builder with on_conflict called, where(criterion) raises
\* exactly when the criterion is not the empty criterion and do_nothing is set
\* or the list of conflict target fields is empty; where(<empty criterion>)
\* returns a builder with the predicates of the one it was called on.
C11_WhereRaisesForNonEmptyCriterion ==
  /\ \A i \in Builders :
       LET b == builders[i]
       IN b.on_conflict =>
            /\ WhereErr(i, "Empty") = "none"
            /\ \A c \in Criteria \ {"Empty"} :
                 /\ b.on_conflict_do_nothing =>
                      WhereErr(i, c) = "DO NOTHING doest not support WHERE"
                 /\ (~b.on_conflict_do_nothing /\ Fields(heap, b) = <<>>) =>
                      WhereErr(i, c)
                        = "Can not have fieldless ON CONFLICT WHERE"
                 /\ (~b.on_conflict_do_nothing /\ Fields(heap, b) # <<>>) =>
                      WhereErr(i, c) = "none"
  /\ (blast.op = "where" /\ builders[blast.src].on_conflict
      /\ blast.args = <<Str("Empty")>>) =>
       Predicates(builders[Len(builders)]) = Predicates(builders[blast.src])

\* where(<empty criterion>) was called on a builder with on_conflict called
\* and no target field and returned a builder; where(c1) on that builder
\* raises.
C11_Witness ==
  /\ blast.op = "where"
  /\ blast.args = <<Str("Empty")>>
  /\ builders[blast.src].on_conflict
  /\ Fields(heap, builders[blast.src]) = <<>>
  /\ WhereErr(blast.src, "c1") = "Can not have fieldless ON CONFLICT WHERE"

----------------------------------------------------------------------------
(* results.py: Ok, Err and returns_result *)

Ok(v) == [variant |-> "Ok", value |-> v]
Err(e) == [variant |-> "Err", err |-> e]

\* How a call ends: it returns a value or it raises an error.
Return(v) == [out |-> "return", value |-> v]
Raised(e) == [out |-> "raise", err |-> e]

\* An error object: its class and its args.
Error(cls, args) == [cls |-> cls, args |-> args]

\* The classes an error of class cls is an instance of.
Bases(cls) ==
  CASE cls = "ValueError" -> {"ValueError", "Exception", "BaseException"}
    [] cls = "ValidationError" ->
         {"ValidationError", "ValueError", "Exception", "BaseException"}
    [] cls = "KeyError" ->
         {"KeyError", "LookupError", "Exception", "BaseException"}
    [] cls = "ZeroDivisionError" ->
         {"ZeroDivisionError", "ArithmeticError", "Exception", "BaseException"}
    [] cls = "CancelledError" -> {"CancelledError", "BaseException"}
    [] OTHER -> {cls, "Exception", "BaseException"}

\* Ok.unwrap / Err.unwrap
unwrap(r) ==
  IF r.variant = "Ok" THEN Return(r.value) ELSE Raised(r.err)

\* unwrap_or with the Err branch going through unwrap, as the Ok branch does.
unwrap_or_ViaUnwrap(r, default) == unwrap(r)

\* Ok.unwrap_or / Err.unwrap_or
unwrap_or(r, default) ==
  IF r.variant = "Ok" THEN unwrap(r) ELSE Return(default)

\* Ok.unwrap_or_else / Err.unwrap_or_else: op maps an error class to the way
\* the call op(err) ends.
unwrap_or_else(r, op) ==
  IF r.variant = "Ok" THEN unwrap(r) ELSE op[r.err.cls]

\* The err argument of returns_result: absent, one class or a tuple of
\* classes.
NoKinds == [form |-> "None", kinds |-> <<>>]
OneKind(k) == [form |-> "type", kinds |-> <<k>>]
KindTuple(ks) == [form |-> "tuple", kinds |-> ks]

\* The class the wrapper made by returns_result(err = cfg) catches.
CaughtClass(cfg) ==
  IF cfg.form = "None" \/ cfg.form = "tuple" THEN "Exception"
  ELSE cfg.kinds[1]

\* returns_result(err = cfg)(fn)(*args), where the call fn(*args) ends as
\* `body`.
returns_result(cfg, body) ==
  IF body.out = "return" THEN Return(Ok(body.value))
  ELSE IF CaughtClass(cfg) \in Bases(body.err.cls) THEN Return(Err(body.err))
  ELSE body

\* Inputs
Values == 0..MaxValue

ErrorClasses == {"ValueError", "KeyError", "ZeroDivisionError", "CancelledError"}

Errors == {Error(c, "msg") : c \in ErrorClasses}

KindConfigs ==
  {NoKinds}
  \cup {OneKind(k) : k \in {"ValueError", "KeyError", "LookupError",
                             "Exception"}}
  \cup {KindTuple(<<"ValueError", "KeyError">>), KindTuple(<<"ValueError">>)}

Bodies == {Return(v) : v \in Values} \cup {Raised(e) : e \in Errors}

Results == {Ok(v) : v \in Values} \cup {Err(e) : e \in Errors}

\* Callbacks of unwrap_or_else: one returns a constant, one re-raises.
Callbacks ==
  {[c \in ErrorClasses |-> Return(v)] : v \in Values}
  \cup {[c \in ErrorClasses |-> Raised(Error(c, "msg"))]}

CallWrapped(cfg, body) ==
  /\ rlast' = [op |-> "returns_result", cfg |-> cfg, body |-> body,
               end |-> returns_result(cfg, body)]
  /\ UNCHANGED <<wvars, bvars, svars, dvars>>

CallUnwrap(r) ==
  /\ rlast' = [op |-> "unwrap", result |-> r, end |-> unwrap(r)]
  /\ UNCHANGED <<wvars, bvars, svars, dvars>>

CallUnwrapOr(r, d) ==
  /\ rlast' = [op |-> "unwrap_or", result |-> r, default |-> d,
               end |-> unwrap_or(r, d)]
  /\ UNCHANGED <<wvars, bvars, svars, dvars>>

CallUnwrapOrElse(r, f) ==
  /\ rlast' = [op |-> "unwrap_or_else", result |-> r, callback |-> f,
               end |-> unwrap_or_else(r, f)]
  /\ UNCHANGED <<wvars, bvars, svars, dvars>>

InitResults ==
  /\ inTx = FALSE
  /\ committed = {}
  /\ working = {}
  /\ stack = [t \in Tasks |-> <<>>]
  /\ exc = [t \in Tasks |-> "none"]
  /\ last = NoEvent
  /\ heap = <<>>
  /\ builders = <<>>
  /\ blast = NoCall
  /\ store = NoStore
  /\ stored = <<>>
  /\ slast = NoStoreCall
  /\ rlast = NoResultCall
  /\ db = NoWrapper
  /\ dlast = NoWrapperCall

NextResults ==
  \/ \E cfg \in KindConfigs : \E body \in Bodies : CallWrapped(cfg, body)
  \/ \E r \in Results : CallUnwrap(r)
  \/ \E r \in Results : \E d \in Values : CallUnwrapOr(r, d)
  \/ \E r \in Results : \E f \in Callbacks : CallUnwrapOrElse(r, f)

SpecResults == InitResults /\ [][NextResults]_vars

----------------------------------------------------------------------------
(* schemas.py and stores.py: rows, their serialisation and their mapping *)

Range(q) == {q[i] : i \in 1..Len(q)}

ID_COLUMN == "id"
TABLE_NAME == "t"

\* Integers as the engine stores and returns them.
Digits == <<"1", "2", "3", "4", "5", "6">>
Keys == {Digits[i] : i \in 1..MaxKeys}

\* Text that parses as a UUID, and a uuid.UUID object.
UuidTexts == {"u1", "u2"}
Uuid(s) == [uuid |-> s]

\* Row types: model_fields of the row class, in declaration order.  "id" is
\* an int field, "uid" a uuid.UUID field; both are required.
ColumnSets == {<<"id">>, <<"id", "uid">>}
Policies == {"do_nothing", "do_update"}

\* BaseStore.column_names and BaseStore.columns
column_names(st) == st.columns
columns(st) == [i \in 1..Len(st.columns) |-> FieldOf(st.columns[i], "None")]

\* The valid rows of a row type.
RowsOf(cols) ==
  {[c \in Range(cols) |-> IF c = "uid" THEN Uuid(f[c]) ELSE f[c]] :
     f \in {g \in [Range(cols) -> Keys \cup UuidTexts] :
              \A c \in Range(cols) :
                IF c = "uid" THEN g[c] \in UuidTexts ELSE g[c] \in Keys}}

\* json.loads(row.model_dump_json()): a UUID becomes its text, an int stays.
DumpValue(c, v) == IF c = "uid" THEN v.uuid ELSE v
row_dict(row) == [c \in DOMAIN row |-> DumpValue(c, row[c])]

\* cls.model_validate(obj) for one field: the stored value is coerced to the
\* type of the field, or validation fails.
Validates(c, v) ==
  IF c = "uid" THEN v \in UuidTexts ELSE v \in Range(Digits)
Coerce(c, v) == IF c = "uid" THEN Uuid(v) ELSE v

\* BaseRow.model_validate_row(row) before the returns_result wrapper: the
\* columns of the raw row that are fields of the row type are validated.
model_validate(st, raw) ==
  LET keys == DOMAIN raw \cap Range(st.columns)
  IN IF \A c \in Range(st.columns) : c \in keys /\ Validates(c, raw[c])
     THEN Return([c \in Range(st.columns) |-> Coerce(c, raw[c])])
     ELSE Raised(Error("ValidationError", "msg"))

\* BaseRow.model_validate_row(row), wrapped by returns_result(err =
\* ValidationError): the Result it returns.
model_validate_row(st, raw) ==
  returns_result(OneKind("ValidationError"), model_validate(st, raw)).value

\* _return_one with the loop stopping at the first row, mapped or not.
return_one_FirstRowOnly(st, rows) ==
  IF rows = <<>> THEN Err(Error("ValueError", "Failed to find"))
  ELSE LET result == model_validate_row(st, Head(rows))
       IN IF result.variant = "Ok" THEN Ok(result.value)
          ELSE Err(Error("ValueError", "Failed to find"))

\* _return_one(rows, row_cls)
RECURSIVE return_one(_, _)
return_one(st, rows) ==
  IF rows = <<>> THEN Err(Error("ValueError", "Failed to find"))
  ELSE LET result == model_validate_row(st, Head(rows))
       IN IF result.variant = "Ok" THEN Ok(result.value)
          ELSE return_one(st, Tail(rows))

\* _return_one_or_none(rows, row_cls): <<row>> or <<>> for None.
RECURSIVE return_one_or_none(_, _)
return_one_or_none(st, rows) ==
  IF rows = <<>> THEN <<>>
  ELSE LET result == model_validate_row(st, Head(rows))
       IN IF result.variant = "Ok" THEN <<result.value>>
          ELSE return_one_or_none(st, Tail(rows))

\* _return_many returning after the first row that maps.
return_many_FirstOnly(st, rows) == return_one_or_none(st, rows)

\* _return_many(rows, row_cls)
RECURSIVE return_many(_, _)
return_many(st, rows) ==
  IF rows = <<>> THEN <<>>
  ELSE LET result == model_validate_row(st, Head(rows))
       IN (IF result.variant = "Ok" THEN <<result.value>> ELSE <<>>)
          \o return_many(st, Tail(rows))

----------------------------------------------------------------------------
(* stores.py: the statements the store builds *)

\* A QueryWithParameters: the builder (heap h, record b), the table and the
\* columns or terms given to into(..).columns(..) or from_(..).select(..),
\* the placeholders of each VALUES tuple and the parameters.  A placeholder
\* is the name after its colon.
QP(r, kind, tbl, cols, values, parameters) ==
  [err |-> r.err, h |-> r.h, b |-> r.b, kind |-> kind, table |-> tbl,
   columns |-> cols, values |-> values, parameters |-> parameters]

NoQP ==
  [err |-> "none", h |-> NewHeap, b |-> NewBuilder("select"), kind |-> "none",
   table |-> "None", columns |-> <<>>, values |-> <<>>, parameters |-> <<>>]

Names(fields) == [i \in 1..Len(fields) |-> fields[i].name]

\* The element of a singleton: The({e(x) : x \in {d}}) is e(d), with d
\* evaluated once.
The(S) == CHOOSE x \in S : TRUE

\* The loop of query.do_update(update_field = column) over the non-key
\* columns, each call on a copy of the builder before it.
RECURSIVE do_updates(_, _)
do_updates(q, cols) ==
  IF q.err # "none" \/ cols = <<>> THEN q
  ELSE IF Head(cols).name = ID_COLUMN THEN do_updates(q, Tail(cols))
  ELSE The({do_updates(u, Tail(cols)) :
              u \in {do_update(c.h, c.b, Head(cols), "None") :
                       c \in {Copy(q.h, q.b)}}})

\* query.on_conflict(self.ID_COLUMN)
declare_target(q) ==
  The({on_conflict(c.h, c.b, <<Str(ID_COLUMN)>>) : c \in {Copy(q.h, q.b)}})

\* match self.ON_CONFLICT: do_nothing(), or do_update(..) per non-key column
declare_action(st, q, cols) ==
  IF q.err # "none" THEN q
  ELSE IF st.policy = "do_nothing"
  THEN The({do_nothing(c.h, c.b) : c \in {Copy(q.h, q.b)}})
  ELSE IF st.policy = "do_update" THEN do_updates(q, cols)
  ELSE q

\* query.returning(*columns)
declare_returning(q, cols) ==
  IF q.err # "none" THEN q
  ELSE The({returning(c.h, c.b, cols) : c \in {Copy(q.h, q.b)}})

\* key = f"{column.name}_{num}" with the row index left out.
param_key_ColumnOnly(name, num) == name

\* key = f"{column.name}_{num}"
param_key(name, num) ==
  name \o "_" \o ToString(num)

\* The position of the last pass of the loops over rows and columns that
\* assigns parameters[k]: a later assignment to the same key replaces an
\* earlier one.
LastBound(values, k) ==
  CHOOSE p \in {<<n, i>> : n \in 1..Len(values), i \in 1..Len(values[1])} :
    /\ values[p[1]][p[2]] = k
    /\ \A n \in 1..Len(values) : \A i \in 1..Len(values[1]) :
         values[n][i] = k => (n < p[1] \/ (n = p[1] /\ i <= p[2]))

\* _create_row_query(rows, table = tbl, columns = cols): tbl is a table name
\* or "None", cols a list of Field objects (empty for None as well).
create_row_query(st, rows, tbl, cols) ==
  LET table_ == IF tbl = "None" THEN TABLE_NAME ELSE tbl
      columns_ == IF cols = <<>> THEN columns(st) ELSE cols
      names == Names(columns_)
      values == [n \in 1..Len(rows) |->
                   [i \in 1..Len(names) |-> param_key(names[i], n - 1)]]
      keys == {values[n][i] : i \in 1..Len(names), n \in 1..Len(rows)}
      parameters == [k \in keys |->
                       The({row_dict(rows[p[1]])[names[p[2]]] :
                              p \in {LastBound(values, k)}})]
  IN IF \E n \in 1..Len(rows) : \E i \in 1..Len(names) :
          names[i] \notin DOMAIN rows[n]
     THEN QP(Raise(NewHeap, NewBuilder("insert"), "KeyError"),
             "insert", table_, names, <<>>, <<>>)
     ELSE The({QP(q3, "insert", table_, names, values, parameters) :
                 q3 \in {declare_returning(q2, columns_) :
                   q2 \in {declare_action(st, q1, columns_) :
                     q1 \in {declare_target(
                               Okay(NewHeap, NewBuilder("insert")))}}}})

\* The criterion table[column_name] == Parameter(":column_name").
Crit(c) ==
  CASE c = "id" -> "id=:id"
    [] c = "uid" -> "uid=:uid"
    [] c = "rowid" -> "rowid=:rowid"
    [] OTHER -> "nope=:nope"

\* A dict is the sequence of its items, in insertion order.
DictKeys(d) == {d[i][1] : i \in 1..Len(d)}
DictGet(d, k) == d[CHOOSE i \in 1..Len(d) : d[i][1] = k][2]

\* The loop of query.where(..) left out: no criterion is added.
wheres_NoCriteria(q, items) == q

\* The loop of query.where(..) over filters.items().
RECURSIVE wheres(_, _)
wheres(q, items) ==
  IF q.err # "none" \/ items = <<>> THEN q
  ELSE The({wheres(w, Tail(items)) :
              w \in {where(c.h, c.b, Crit(Head(items)[1])) :
                       c \in {Copy(q.h, q.b)}}})

\* _get_rows_query(table = tbl, terms = terms, filters = filters)
get_rows_query(st, tbl, terms, filters) ==
  LET table_ == IF tbl = "None" THEN TABLE_NAME ELSE tbl
      terms_ == IF terms = <<>> THEN columns(st) ELSE terms
      parameters == [k \in DictKeys(filters) |-> DictGet(filters, k)]
  IN The({QP(q, "select", table_, Names(terms_), <<>>, parameters) :
            q \in {wheres(Okay(NewHeap, NewBuilder("select")), filters)}})

\* The statement text and the parameters handed to the connection:
\* qp.query.get_sql() rendered as text, and qp.parameters.
Statement(qp, text) ==
  [sql |-> text.sql, kind |-> qp.kind, table |-> qp.table,
   columns |-> qp.columns, values |-> qp.values,
   parameters |-> qp.parameters]

NoStatement == Statement(NoQP, Sql(<<>>))

----------------------------------------------------------------------------
(* The engine: table t with the columns of the row type, unique on the key
   column, rows in rowid order.  It reads the statement text. *)

Pos(sql, tok) == CHOOSE k \in 1..Len(sql) : sql[k] = tok

NotComma(tok) == tok # ","

\* The columns of the conflict target.
ConflictCols(sql) ==
  IF HasToken(sql, "(")
  THEN {sql[k] : k \in (Pos(sql, "(") + 1)..(Pos(sql, ")") - 1)} \ {","}
  ELSE {}

\* The positions of the columns assigned by DO UPDATE SET.
UpdatePositions(sql) ==
  IF HasToken(sql, "DO UPDATE SET")
  THEN {k \in (Pos(sql, "DO UPDATE SET") + 1)..(Len(sql) - 1) :
          /\ sql[k + 1] = "="
          /\ HasToken(sql, "RETURNING") => k < Pos(sql, "RETURNING")}
  ELSE {}

UpdateCols(sql) == {sql[k] : k \in UpdatePositions(sql)}

\* The terms of the RETURNING clause.
ReturningCols(sql) ==
  IF HasToken(sql, "RETURNING")
  THEN SelectSeq(SubSeq(sql, Pos(sql, "RETURNING") + 1, Len(sql)), NotComma)
  ELSE <<>>

\* The columns of the criteria of the WHERE clause.
WhereCols(sql) ==
  {c \in {"id", "uid", "rowid", "nope"} : HasToken(sql, Crit(c))}

TableCols(st) == Range(st.columns) \cup {"rowid"}

Project(row, cols) == [c \in Range(cols) |-> row[c]]

\* The row a conflicting row becomes under DO UPDATE SET.
Updated(sql, old, excluded) ==
  [c \in DOMAIN old |->
     IF c \in UpdateCols(sql)
     THEN LET k == CHOOSE j \in UpdatePositions(sql) : sql[j] = c
          IN IF sql[k + 2] = "EXCLUDED" THEN excluded[sql[k + 3]]
             ELSE sql[k + 2]
     ELSE old[c]]

\* One VALUES tuple of an INSERT: e holds the table and the rows returned so
\* far.
InsertOne(st, stmt, e, n) ==
  LET new == [c \in TableCols(st) |->
                IF c = "rowid" THEN Digits[Len(e.tab) + 1]
                ELSE IF c \in Range(stmt.columns)
                THEN stmt.parameters[
                       stmt.values[n][CHOOSE i \in 1..Len(stmt.columns) :
                                        stmt.columns[i] = c]]
                ELSE "NULL"]
      hit == {i \in 1..Len(e.tab) : e.tab[i][ID_COLUMN] = new[ID_COLUMN]}
      i == CHOOSE j \in hit : TRUE
      ret == ReturningCols(stmt.sql)
  IN IF hit = {}
     THEN [e EXCEPT !.tab = Append(e.tab, new),
                    !.out = IF ret = <<>> THEN e.out
                            ELSE Append(e.out, Project(new, ret))]
     ELSE IF ~HasToken(stmt.sql, "ON CONFLICT")
     THEN [e EXCEPT !.err = "IntegrityError"]
     ELSE IF HasToken(stmt.sql, "DO NOTHING") THEN e
     ELSE LET upd == Updated(stmt.sql, e.tab[i], new)
          IN [e EXCEPT !.tab[i] = upd,
                       !.out = IF ret = <<>> THEN e.out
                               ELSE Append(e.out, Project(upd, ret))]

RECURSIVE InsertFrom(_, _, _, _)
InsertFrom(st, stmt, e, n) ==
  IF e.err # "none" \/ n > Len(stmt.values) THEN e
  ELSE The({InsertFrom(st, stmt, e2, n + 1) :
              e2 \in {InsertOne(st, stmt, e, n)}})

\* execute_fetchall of an INSERT .. ON CONFLICT .. RETURNING statement.
ExecInsert(st, tab, stmt) ==
  IF stmt.table # TABLE_NAME
     \/ ~(Range(stmt.columns) \cup Range(ReturningCols(stmt.sql))
            \cup UpdateCols(stmt.sql) \subseteq TableCols(st))
     \/ (HasToken(stmt.sql, "ON CONFLICT")
         /\ ConflictCols(stmt.sql) \notin {{}, {ID_COLUMN}})
     \/ stmt.values = <<>>
  THEN [tab |-> tab, out |-> <<>>, err |-> "OperationalError"]
  ELSE InsertFrom(st, stmt, [tab |-> tab, out |-> <<>>, err |-> "none"], 1)

\* execute_fetchall of a SELECT .. WHERE statement.
ExecSelect(st, tab, stmt) ==
  LET cols == WhereCols(stmt.sql)
      Matches(row) == \A c \in cols : row[c] = stmt.parameters[c]
  IN IF stmt.table # TABLE_NAME
        \/ ~(Range(stmt.columns) \cup cols \subseteq TableCols(st))
     THEN [tab |-> tab, out |-> <<>>, err |-> "OperationalError"]
     ELSE IF ~(cols \subseteq DOMAIN stmt.parameters)
     THEN [tab |-> tab, out |-> <<>>, err |-> "ProgrammingError"]
     ELSE LET found == SelectSeq(tab, Matches)
          IN [tab |-> tab,
              out |-> [i \in 1..Len(found) |-> Project(found[i], stmt.columns)],
              err |-> "none"]

----------------------------------------------------------------------------
(* stores.py: the operations of BaseStore.  Each is called outside any
   writer() scope, on a connection that is not in a transaction. *)

\* column_names = None, or a list of names.
NoNames == [given |-> FALSE, names |-> <<>>]
GivenNames(names) == [given |-> TRUE, names |-> names]

ArgError ==
  Raised(Error("ValueError",
               "Must provide table_name if column_names is provided"))

BuildError(msg) ==
  Raised(Error(IF msg = "KeyError" THEN "KeyError" ELSE "QueryException", msg))

\* What a call did: the scope it entered, the calls it made on the
\* connection, the statement it sent, the rows the engine returned, how it
\* ended and the table after it.
Done(scope, conn, stmt, raw, end, tab) ==
  [scope |-> scope, conn |-> conn, stmt |-> stmt, raw |-> raw, end |-> end,
   tab |-> tab]

\* The table after a write scope that made the calls ops on the connection.
TabAfter(ops, before, after) ==
  IF ops # <<>> /\ ops[Len(ops)] = "rollback" THEN before ELSE after

\* The statement of _add is executed inside the writer() scope.
execute_insert(st, tab, qp, text) ==
  LET bad == WriterExit(FALSE, "Exception")
      good == WriterExit(FALSE, "ok")
  IN IF text.err # "none"
     THEN Done("writer", bad, NoStatement, <<>>, BuildError(text.err), tab)
     ELSE The({IF e.err # "none"
               THEN Done("writer", <<"execute_fetchall">> \o bad,
                         Statement(qp, text), <<>>,
                         Raised(Error(e.err, "msg")), tab)
               ELSE Done("writer", <<"execute_fetchall">> \o good,
                         Statement(qp, text), e.out, Return(e.out),
                         TabAfter(good, tab, e.tab)) :
                 e \in {ExecInsert(st, tab, Statement(qp, text))}})

\* _add(rows, table_name = tn, column_names = cn)
add_(st, tab, rows, tn, cn) ==
  IF cn.given /\ tn = "None"
  THEN Done("none", <<>>, NoStatement, <<>>, ArgError, tab)
  ELSE LET names == IF cn.given THEN cn.names ELSE column_names(st)
           cols == [i \in 1..Len(names) |-> FieldOf(names[i], "t")]
       IN The({IF qp.err # "none"
               THEN Done("none", <<>>, NoStatement, <<>>, BuildError(qp.err),
                         tab)
               ELSE The({execute_insert(st, tab, qp, text) :
                           text \in {get_sql(qp.h, qp.b)}}) :
                 qp \in {create_row_query(st, rows, tn, cols)}})

\* The statement of _get is executed inside the reader() scope.
execute_select(st, tab, qp, text) ==
  IF text.err # "none"
  THEN Done("reader", <<>>, NoStatement, <<>>, BuildError(text.err), tab)
  ELSE The({IF e.err # "none"
            THEN Done("reader", <<"execute_fetchall">>, Statement(qp, text),
                      <<>>, Raised(Error(e.err, "msg")), tab)
            ELSE Done("reader", <<"execute_fetchall">>, Statement(qp, text),
                      e.out, Return(e.out), tab) :
              e \in {ExecSelect(st, tab, Statement(qp, text))}})

\* _get without the check of its arguments.
get_Unchecked(st, tab, tn, cn, filters) ==
  LET names == IF cn.given THEN cn.names ELSE column_names(st)
      terms == [i \in 1..Len(names) |-> FieldOf(names[i], "t")]
  IN The({IF qp.err # "none"
          THEN Done("none", <<>>, NoStatement, <<>>, BuildError(qp.err), tab)
          ELSE The({execute_select(st, tab, qp, text) :
                      text \in {get_sql(qp.h, qp.b)}}) :
            qp \in {get_rows_query(st, tn, terms, filters)}})

\* _get(table_name = tn, column_names = cn, filters = filters)
get_(st, tab, tn, cn, filters) ==
  IF cn.given /\ tn = "None"
  THEN Done("none", <<>>, NoStatement, <<>>, ArgError, tab)
  ELSE LET names == IF cn.given THEN cn.names ELSE column_names(st)
           terms == [i \in 1..Len(names) |-> FieldOf(names[i], "t")]
       IN The({IF qp.err # "none"
               THEN Done("none", <<>>, NoStatement, <<>>, BuildError(qp.err),
                         tab)
               ELSE The({execute_select(st, tab, qp, text) :
                           text \in {get_sql(qp.h, qp.b)}}) :
                 qp \in {get_rows_query(st, tn, terms, filters)}})

\* add(row)
add(st, tab, row) ==
  The({IF d.end.out = "raise" THEN d
       ELSE [d EXCEPT !.end = unwrap(return_one(st, d.raw))] :
         d \in {add_(st, tab, <<row>>, "None", NoNames)}})

\* add_many(rows)
add_many(st, tab, rows) ==
  The({IF d.end.out = "raise" THEN d
       ELSE [d EXCEPT !.end = Return(return_many(st, d.raw))] :
         d \in {add_(st, tab, rows, "None", NoNames)}})

\* get(column_names = cn, filters = filters)
get(st, tab, cn, filters) ==
  The({IF d.end.out = "raise" THEN d
       ELSE [d EXCEPT !.end = Return(return_many(st, d.raw))] :
         d \in {get_(st, tab, "None", cn, filters)}})

\* get_one(column_names = cn, filters = filters)
get_one(st, tab, cn, filters) ==
  The({IF d.end.out = "raise" THEN d
       ELSE [d EXCEPT !.end = Return(return_one(st, d.raw))] :
         d \in {get_(st, tab, "None", cn, filters)}})

\* get_one_or_none(column_names = cn, filters = filters): <<>> is None.
get_one_or_none(st, tab, cn, filters) ==
  The({IF d.end.out = "raise" THEN d
       ELSE [d EXCEPT !.end = Return(return_one_or_none(st, d.raw))] :
         d \in {get_(st, tab, "None", cn, filters)}})

\* a | b with the value of a kept for a key of both.
DictMerge_LeftWins(a, b) ==
  a \o SelectSeq(b, LAMBDA item : item[1] \notin DictKeys(a))

\* a | b for dicts.
DictMerge(a, b) ==
  [i \in 1..Len(a) |->
     <<a[i][1], IF a[i][1] \in DictKeys(b) THEN DictGet(b, a[i][1])
                ELSE a[i][2]>>]
  \o SelectSeq(b, LAMBDA item : item[1] \notin DictKeys(a))

LastRowidFilter == <<<<"rowid", "LAST_INSERT_ROWID()">>>>

\* get_last(column_names = cn, filters = filters)
get_last(st, tab, cn, filters) ==
  The({IF d.end.out = "raise" THEN d
       ELSE [d EXCEPT !.end = Return(return_one_or_none(st, d.raw))] :
         d \in {get_(st, tab, "None", cn,
                     DictMerge(LastRowidFilter, filters))}})

----------------------------------------------------------------------------
(* stores.py: the calls as steps *)

\* The rows table t may hold before the first call: mapped or not (a uid
\* that is no UUID text), unique on the key column, rowids in order.
PriorUids == {"u1", "zz"}

StoredRows(cols) ==
  {[c \in Range(cols) \cup {"rowid"} |->
      IF c = "rowid" THEN Digits[n] ELSE IF c = "uid" THEN u ELSE k] :
     k \in Keys, u \in PriorUids, n \in 1..MaxKeys}

PriorContents(cols) ==
  {q \in UNION {[1..n -> StoredRows(cols)] : n \in 0..MaxKeys} :
     /\ \A i \in 1..Len(q) : q[i]["rowid"] = Digits[i]
     /\ \A i, j \in 1..Len(q) : i # j => q[i][ID_COLUMN] # q[j][ID_COLUMN]}

\* Arguments of the calls.
\* The row with the first value in every column.
FirstRows(cols) ==
  {r \in RowsOf(cols) : \A c \in DOMAIN r :
     r[c] = IF c = "uid" THEN Uuid("u1") ELSE Digits[1]}

Batches(cols) ==
  {<<>>} \cup {<<r>> : r \in RowsOf(cols)}
  \cup {<<r1, r2>> : r1 \in FirstRows(cols), r2 \in RowsOf(cols)}

\* column_names and filters: no filter, the key filter of a stored or an
\* absent key, and column names (which the public calls give without a table
\* name).
GetArgs ==
  {<<NoNames, <<>>>>, <<GivenNames(<<"id">>), <<>>>>}
  \cup {<<NoNames, <<<<"id", k>>>>>> : k \in Keys \cup {"9"}}

GetLastArgs ==
  {<<NoNames, <<>>>>, <<GivenNames(<<"id">>), <<>>>>,
   <<NoNames, <<<<"rowid", "1">>>>>>, <<NoNames, <<<<"id", "1">>>>>>,
   <<NoNames, <<<<"id", "1">>, <<"rowid", "2">>>>>>}

TableNameArgs == {"None", "t", "u"}

RawColumnNameArgs(cols) ==
  {NoNames, GivenNames(<<>>), GivenNames(<<"id">>), GivenNames(cols)}

StoreCall(op, rows, tn, cn, filters, d) ==
  /\ slast' = [op |-> op, rows |-> rows, table_name |-> tn,
               column_names |-> cn, filters |-> filters, before |-> stored,
               scope |-> d.scope, conn |-> d.conn, stmt |-> d.stmt,
               raw |-> d.raw, end |-> d.end]
  /\ stored' = d.tab
  /\ UNCHANGED <<store, wvars, bvars, rlast, dvars>>

Add(row) ==
  \E d \in {add(store, stored, row)} :
    StoreCall("add", <<row>>, "None", NoNames, <<>>, d)

AddMany(rows) ==
  \E d \in {add_many(store, stored, rows)} :
    StoreCall("add_many", rows, "None", NoNames, <<>>, d)

Get(cn, filters) ==
  \E d \in {get(store, stored, cn, filters)} :
    StoreCall("get", <<>>, "None", cn, filters, d)

GetOne(cn, filters) ==
  \E d \in {get_one(store, stored, cn, filters)} :
    StoreCall("get_one", <<>>, "None", cn, filters, d)

GetOneOrNone(cn, filters) ==
  \E d \in {get_one_or_none(store, stored, cn, filters)} :
    StoreCall("get_one_or_none", <<>>, "None", cn, filters, d)

GetLast(cn, filters) ==
  \E d \in {get_last(store, stored, cn, filters)} :
    StoreCall("get_last", <<>>, "None", cn, filters, d)

\* _add and _get, as a subclass of BaseStore calls them.
RawAdd(rows, tn, cn) ==
  \E d \in {add_(store, stored, rows, tn, cn)} :
    StoreCall("_add", rows, tn, cn, <<>>, d)

RawGet(tn, cn, filters) ==
  \E d \in {get_(store, stored, tn, cn, filters)} :
    StoreCall("_get", <<>>, tn, cn, filters, d)

InitStore ==
  /\ inTx = FALSE
  /\ committed = {}
  /\ working = {}
  /\ stack = [t \in Tasks |-> <<>>]
  /\ exc = [t \in Tasks |-> "none"]
  /\ last = NoEvent
  /\ heap = <<>>
  /\ builders = <<>>
  /\ blast = NoCall
  /\ store \in [columns : ColumnSets, policy : Policies]
  /\ stored \in PriorContents(store.columns)
  /\ slast = NoStoreCall
  /\ rlast = NoResultCall
  /\ db = NoWrapper
  /\ dlast = NoWrapperCall

NextStore ==
  \/ \E row \in RowsOf(store.columns) : Add(row)
  \/ \E rows \in Batches(store.columns) : AddMany(rows)
  \/ \E a \in GetArgs : Get(a[1], a[2])
  \/ \E a \in GetArgs : GetOne(a[1], a[2])
  \/ \E a \in GetArgs : GetOneOrNone(a[1], a[2])
  \/ \E a \in GetLastArgs : GetLast(a[1], a[2])

SpecStore == InitStore /\ [][NextStore]_vars

\* The calls of _add and _get with a table name and column names, and the
\* public calls with column names.
PublicArgs == {NoNames, GivenNames(<<"id">>)}

NextStoreRaw ==
  \/ \E row \in FirstRows(store.columns) : \E tn \in TableNameArgs :
       \E cn \in RawColumnNameArgs(store.columns) : RawAdd(<<row>>, tn, cn)
  \/ \E tn \in TableNameArgs : \E cn \in RawColumnNameArgs(store.columns) :
       RawGet(tn, cn, <<>>)
  \/ \E cn \in PublicArgs : Get(cn, <<>>)
  \/ \E cn \in PublicArgs : GetOne(cn, <<>>)
  \/ \E cn \in PublicArgs : GetOneOrNone(cn, <<>>)
  \/ \E cn \in PublicArgs : GetLast(cn, <<>>)

SpecStoreRaw == InitStore /\ [][NextStoreRaw]_vars

----------------------------------------------------------------------------
(* core.py: DBWrapper.close and the wrapper as an `async with` scope.  db
   holds connection._connection ("open", or "None" for a connection never
   opened or closed), the number of times the connection was closed, the
   number of close() calls made and the number of open `async with` scopes. *)

\* await self.connection.close(): the connection is closed and its
\* _connection becomes None, also when closing raises.
ConnectionClose(d, fails) ==
  [db |-> [d EXCEPT !.handle = "None", !.closes = d.closes + 1],
   end |-> IF fails THEN Raised(Error("OperationalError", "msg"))
           ELSE Return("None")]

\* close() without the check of connection._connection.
close_Unchecked(d, fails) == ConnectionClose(d, fails)

\* DBWrapper.close()
close(d, fails) ==
  IF d.handle = "None" THEN [db |-> d, end |-> Return("None")]
  ELSE ConnectionClose(d, fails)

\* DBWrapper.__aexit__(exc_type, exc_val, exc_tb): close(), and None is
\* returned, so an error of the body is not suppressed.
aexit(d, how, fails) ==
  LET c == close(d, fails)
  IN [db |-> c.db, end |-> c.end,
      leaves |-> IF c.end.out = "raise" THEN c.end.err.cls ELSE how]

\* One more close() call was made.
Called(d) == [d EXCEPT !.calls = d.calls + 1]

\* await db.close()
Close(fails) ==
  /\ db.calls < MaxCalls
  /\ \E c \in {close(db, fails)} :
       /\ db' = Called(c.db)
       /\ dlast' = [op |-> "close", how |-> "ok", before |-> db,
                    end |-> c.end, leaves |-> "ok"]
  /\ UNCHANGED <<wvars, bvars, svars, rlast>>

\* async with db: __aenter__ returns the wrapper.
EnterWrapper ==
  /\ db.scopes < MaxDepth
  /\ db' = [db EXCEPT !.scopes = db.scopes + 1]
  /\ dlast' = [op |-> "aenter", how |-> "ok", before |-> db,
               end |-> Return("self"), leaves |-> "ok"]
  /\ UNCHANGED <<wvars, bvars, svars, rlast>>

\* The body of `async with db` ends by `how`: __aexit__ runs.
ExitWrapper(how, fails) ==
  /\ db.scopes > 0
  /\ db.calls < MaxCalls
  /\ \E c \in {aexit(db, how, fails)} :
       /\ db' = [Called(c.db) EXCEPT !.scopes = db.scopes - 1]
       /\ dlast' = [op |-> "aexit", how |-> how, before |-> db,
                    end |-> c.end, leaves |-> c.leaves]
  /\ UNCHANGED <<wvars, bvars, svars, rlast>>

InitWrapper ==
  /\ inTx = FALSE
  /\ committed = {}
  /\ working = {}
  /\ stack = [t \in Tasks |-> <<>>]
  /\ exc = [t \in Tasks |-> "none"]
  /\ last = NoEvent
  /\ heap = <<>>
  /\ builders = <<>>
  /\ blast = NoCall
  /\ store = NoStore
  /\ stored = <<>>
  /\ slast = NoStoreCall
  /\ rlast = NoResultCall
  /\ db \in {[NoWrapper EXCEPT !.handle = h] : h \in {"None", "open"}}
  /\ dlast = NoWrapperCall

NextWrapper ==
  \/ \E fails \in BOOLEAN : Close(fails)
  \/ EnterWrapper
  \/ \E how \in Ends : \E fails \in BOOLEAN : ExitWrapper(how, fails)

SpecWrapper == InitWrapper /\ [][NextWrapper]_vars

----------------------------------------------------------------------------
(* stores.py: BaseStore.create.  A concrete store declares its DDL statements
   by overriding _create_table_queries (the base class declares none); each
   statement of the list either executes or raises the sqlite3 error named
   in its `fails` field. *)

DdlOutcomes == {"none", "OperationalError", "IntegrityError"}

\* The lists _create_table_queries can return: statement i has the text
\* <<"CREATE", i>>.
DdlLists ==
  UNION {{[i \in 1..n |-> [sql |-> <<"CREATE", Digits[i]>>, fails |-> f[i]]] :
            f \in [1..n -> DdlOutcomes]} : n \in 0..MaxDdl}

\* The loop of create from statement k on: connection.execute of each
\* statement in turn; only sqlite3.OperationalError is caught, logged with
\* the statement's text and raised again, any other error leaves the loop
\* as it is.
RECURSIVE create_table_queries_loop(_, _)
create_table_queries_loop(ddl, k) ==
  IF k > Len(ddl)
    THEN [executed |-> <<>>, logged |-> <<>>, err |-> "none"]
  ELSE IF ddl[k].fails = "none"
    THEN LET rest == create_table_queries_loop(ddl, k + 1)
         IN [rest EXCEPT !.executed = <<ddl[k].sql>> \o @]
  ELSE [executed |-> <<ddl[k].sql>>,
        logged |-> IF ddl[k].fails = "OperationalError"
                     THEN <<ddl[k].sql>> ELSE <<>>,
        err |-> ddl[k].fails]

\* BaseStore.create(db) on a connection whose in_transaction is `reuse`: the
\* loop runs inside `async with db.writer()`, and the store is returned
\* after the scope.
create(ddl, reuse) ==
  LET body == create_table_queries_loop(ddl, 1)
      how == IF body.err = "none" THEN "ok" ELSE "Exception"
  IN [executed |-> body.executed,
      logged |-> body.logged,
      conn |-> WriterExit(reuse, how),
      end |-> IF body.err = "none" THEN Return("store")
              ELSE Raised(Error(body.err, "msg"))]

\* await Store.create(db), by a task that may be inside writer() scopes.
Create(t, ddl) ==
  /\ exc[t] = "none"
  /\ \E c \in {create(ddl, inTx)} : \E after \in {ConnAfter(c.conn)} :
       /\ inTx' = after.inTx
       /\ committed' = after.committed
       /\ working' = after.working
       /\ exc' = [exc EXCEPT ![t] =
                    IF c.end.out = "raise" THEN "Exception" ELSE "none"]
       /\ last' = [task |-> t, ev |-> "exit", reuse |-> inTx,
                   how |-> IF c.end.out = "raise" THEN "Exception" ELSE "ok",
                   ops |-> c.conn, snap |-> committed, wrote |-> {}]
       /\ slast' = [op |-> "create", ddl |-> ddl, reuse |-> inTx,
                    executed |-> c.executed, logged |-> c.logged,
                    conn |-> c.conn, end |-> c.end]
  /\ UNCHANGED <<stack, store, stored>>
  /\ UNCHANGED <<bvars, rlast, dvars>>

InitCreate ==
  /\ inTx = FALSE
  /\ committed = {}
  /\ working = {}
  /\ stack = [t \in Tasks |-> <<>>]
  /\ exc = [t \in Tasks |-> "none"]
  /\ last = NoEvent
  /\ heap = <<>>
  /\ builders = <<>>
  /\ blast = NoCall
  /\ store = NoStore
  /\ stored = <<>>
  /\ slast = NoStoreCall
  /\ rlast = NoResultCall
  /\ db = NoWrapper
  /\ dlast = NoWrapperCall

\* A store is created at the top level or inside a caller's writer() scope,
\* before or after the caller wrote something.
NextCreate ==
  \/ \E ddl \in DdlLists : Create("t1", ddl)
  \/ WriterEnter("t1")
  \/ Execute("t1", 1)
  \/ BodyReturns("t1")
  \/ Propagates("t1")
  \/ Handles("t1")

SpecCreate == InitCreate /\ [][NextCreate]_vars

----------------------------------------------------------------------------
(* Claims about the WITH clause *)

\* The rendered text of builder b.
Text(b) == get_sql(heap, b).sql

\* The token the statement of builder b starts with.
BaseToken(b) == base_sql(heap, [b EXCEPT !.wheres = <<>>])[
                  Len(base_sql(heap, [b EXCEPT !.wheres = <<>>]))]

\* The CTEs of the rendered WITH clause of builder b, in text order.
WithNames(b) ==
  IF Text(b)[1] \in {"WITH", "WITH RECURSIVE"}
  THEN SelectSeq(SubSeq(Text(b), 2, Pos(Text(b), BaseToken(b)) - 1), NotComma)
  ELSE <<>>

\* C22: for any sequence of with_aliased_query calls on a builder, the WITH
\* clause renders as WITH RECURSIVE if and only if at least one of the CTEs
\* appended was added with recursive = true; the marker, once set, is not
\* cleared by a later CTE that is not recursive; and the CTEs render in the
\* order they were appended.  Stated call by call: the builder a call
\* returns renders the CTEs of the builder it was called on followed by the
\* new one, recursive iff that builder rendered recursive or the call asked
\* for it; a builder without CTE renders no WITH clause.
C22_WithRecursive ==
  /\ \A i \in 1..Len(builders) :
       heap[builders[i].with_] = <<>> =>
         /\ ~HasToken(Text(builders[i]), "WITH")
         /\ ~HasToken(Text(builders[i]), "WITH RECURSIVE")
  /\ blast.op = "with_aliased_query" =>
       LET new == builders[Len(builders)]
           src == builders[blast.src]
       IN /\ WithNames(new) = Append(WithNames(src), blast.args[1].name)
          /\ Text(new)[1] =
               IF Text(src)[1] = "WITH RECURSIVE" \/ blast.args[1].recursive
               THEN "WITH RECURSIVE" ELSE "WITH"

\* A CTE that is not recursive was appended after a recursive one and
\* another: the clause is still WITH RECURSIVE and names the three in order.
C22_Witness ==
  /\ blast.op = "with_aliased_query"
  /\ ~blast.args[1].recursive
  /\ Text(builders[Len(builders)])[1] = "WITH RECURSIVE"
  /\ WithNames(builders[Len(builders)]) = <<"q2", "q1", "q2">>

----------------------------------------------------------------------------
(* Claims about where() inside a conflict clause *)

\* The predicates w with criterion c combined by AND: the empty criterion
\* adds nothing.
AndWith(w, c) == IF c = "Empty" THEN w ELSE Append(w, c)

\* The last call was where(c), made on builders[blast.src] while that
\* builder had a conflict clause with a target field and no DO NOTHING.
WhereInConflictClause ==
  /\ blast.op = "where"
  /\ builders[blast.src].on_conflict
  /\ Fields(heap, builders[blast.src]) # <<>>
  /\ ~builders[blast.src].on_conflict_do_nothing

\* C24: inside a conflict clause (on_conflict with a field, no DO NOTHING)
\* where(criterion) goes to the predicate of the conflict target when no
\* do_update was declared before the call, otherwise to the predicate of the
\* update action; it changes neither the other predicate nor the base WHERE,
\* and the calls that go to one predicate are combined by AND in call
\* order, in the accumulator and in the rendered clause.
C24_WhereRouting ==
  WhereInConflictClause =>
    LET s == builders[blast.src]
        n == builders[Len(builders)]
        c == blast.args[1].name
    IN /\ n.wheres = s.wheres
       /\ IF Updates(heap, s) = <<>>
            THEN /\ n.on_conflict_wheres = AndWith(s.on_conflict_wheres, c)
                 /\ n.on_conflict_do_update_wheres
                      = s.on_conflict_do_update_wheres
            ELSE /\ n.on_conflict_do_update_wheres
                      = AndWith(s.on_conflict_do_update_wheres, c)
                 /\ n.on_conflict_wheres = s.on_conflict_wheres
       /\ get_sql(heap, n).err = "none" =>
            /\ on_conflict_sql(heap, n).sql
                 = <<"ON CONFLICT", "(">>
                   \o Join([i \in 1..Len(Fields(heap, n)) |->
                              <<Fields(heap, n)[i]>>], ",")
                   \o <<")">> \o WhereSql(n.on_conflict_wheres)
            /\ \E q \in {on_conflict_action_sql(heap, n).sql} :
                 SubSeq(q, Len(q) - Len(WhereSql(n.on_conflict_do_update_wheres))
                             + 1, Len(q))
                   = WhereSql(n.on_conflict_do_update_wheres)

\* Two where calls in a row went to the update predicate of a builder that
\* already had a predicate on its conflict target, and the result renders.
C24_Witness ==
  /\ WhereInConflictClause
  /\ Updates(heap, builders[blast.src]) # <<>>
  /\ builders[Len(builders)].on_conflict_do_update_wheres = <<"c2", "c1">>
  /\ builders[Len(builders)].on_conflict_wheres # <<>>
  /\ get_sql(heap, builders[Len(builders)]).err = "none"

----------------------------------------------------------------------------
(* Claims about the order of the clauses *)

\* The place of a token in the order of the clauses, 0 for a token that
\* does not open a clause.
Stage(b, tok) ==
  CASE tok \in {"WITH", "WITH RECURSIVE"} -> 1
    [] tok = BaseToken(b) -> 2
    [] tok = "ON CONFLICT" -> 3
    [] tok \in {"DO NOTHING", "DO UPDATE SET"} -> 4
    [] tok = "RETURNING" -> 5
    [] OTHER -> 0

\* The stages of the clauses of q, in the order they appear in the text.
Stages(b, q) ==
  SelectSeq([k \in 1..Len(q) |-> Stage(b, q[k])], LAMBDA n : n # 0)

\* q is in clause order, each clause at most once.
InClauseOrder(b, q) ==
  \A j, k \in 1..Len(Stages(b, q)) :
    j < k => Stages(b, q)[j] < Stages(b, q)[k]

\* C25: in every statement that renders, the clauses appear in the order
\* WITH, base, ON CONFLICT, conflict action, RETURNING; each appears at most
\* once; a clause whose accumulator is empty is left out (no WITH without
\* a CTE, no conflict clause and action without a declared handler, no
\* RETURNING without a returning term), and the conflict clause, its action
\* and RETURNING are there when declared.
C25_ClauseOrder ==
  \A i \in Builders :
    get_sql(heap, builders[i]).err = "none" =>
      LET b == builders[i]
          q == Text(b)
          st == Range(Stages(b, q))
          handler == b.on_conflict_do_nothing \/ Updates(heap, b) # <<>>
      IN /\ InClauseOrder(b, q)
         /\ 2 \in st
         /\ Ctes(heap, b) = <<>> => 1 \notin st
         /\ 3 \in st <=> handler
         /\ 4 \in st <=> handler
         /\ 5 \in st <=> Returns(heap, b) # <<>>

\* A statement with a conflict target that renders with all five clauses.
C25_Witness ==
  \E i \in Builders :
    /\ get_sql(heap, builders[i]).err = "none"
    /\ Fields(heap, builders[i]) # <<>>
    /\ Stages(builders[i], Text(builders[i])) = <<1, 2, 3, 4, 5>>

----------------------------------------------------------------------------
(* Claims about stores.py *)

\* filters = {key: row.key}
KeyFilter(row) == <<<<ID_COLUMN, row[ID_COLUMN]>>>>

\* The table tab holds a row with the key of row.
KeyStored(tab, row) ==
  \E i \in 1..Len(tab) : tab[i][ID_COLUMN] = row[ID_COLUMN]

\* What get_one(filters = {key: row.key}) returns in the current state.
GetOneByKey(row) == get_one(store, stored, NoNames, KeyFilter(row)).end

RowsWithKey(tab, row) ==
  SelectSeq(tab, LAMBDA x : x[ID_COLUMN] = row[ID_COLUMN])

\* The table tab holds one row with the key of r2, its columns those of r2,
\* and get(filters = {key}) returns that row alone.
UpsertStored(tab, r2) ==
  LET found == RowsWithKey(tab, r2)
  IN /\ Len(found) = 1
     /\ \A c \in DOMAIN r2 : found[1][c] = row_dict(r2)[c]
     /\ get(store, tab, NoNames, KeyFilter(r2)).end = Return(<<r2>>)

\* C13: under the do_update policy, after add_many([r1]) and then
\* add_many([r2]) with r1 and r2 of the same key, the table holds exactly one
\* row with that key, each of its non-key fields equal to the value in r2,
\* and get(filters = {key}) returns exactly that row.  The state is the one
\* after add_many([r1]); add_many([r2]) is the call made next.
C13_UpsertKeepsSecondRow ==
  (store.policy = "do_update" /\ slast.op = "add_many"
   /\ Len(slast.rows) = 1) =>
    \A r2 \in RowsOf(store.columns) :
      r2[ID_COLUMN] = slast.rows[1][ID_COLUMN] =>
        UpsertStored(add_many(store, stored, <<r2>>).tab, r2)

\* The positions of the candidate rows that map to the row type.
Mapping(raw) ==
  {i \in 1..Len(raw) : model_validate_row(store, raw[i]).variant = "Ok"}

\* The first candidate row that maps, as a row of the row type.
FirstMapped(raw) ==
  LET i == CHOOSE k \in Mapping(raw) : \A j \in Mapping(raw) : k <= j
  IN model_validate_row(store, raw[i]).value

NotFound == Err(Error("ValueError", "Failed to find"))

\* C14: for the same candidate rows get_one and get_one_or_none agree: if no
\* candidate row maps to the row type, get_one returns Err(not-found) and
\* get_one_or_none returns the absent value, neither raising; otherwise both
\* yield the first row, in result order, that maps, which is also the first
\* element of what get returns.  The state is the one after any of the three
\* calls reached the engine; the three are compared on its arguments.
C14_GetOneAgree ==
  (slast.op \in {"get", "get_one", "get_one_or_none"}
   /\ slast.end.out = "return") =>
    LET raw == slast.raw
        one == get_one(store, stored, slast.column_names, slast.filters).end
        opt == get_one_or_none(store, stored, slast.column_names,
                               slast.filters).end
        many == get(store, stored, slast.column_names, slast.filters).end
    IN /\ slast.end = CASE slast.op = "get_one" -> one
                         [] slast.op = "get_one_or_none" -> opt
                         [] OTHER -> many
       /\ IF Mapping(raw) = {}
          THEN /\ one = Return(NotFound)
               /\ opt = Return(<<>>)
               /\ many = Return(<<>>)
          ELSE /\ one = Return(Ok(FirstMapped(raw)))
               /\ opt = Return(<<FirstMapped(raw)>>)
               /\ many.out = "return"
               /\ many.value[1] = FirstMapped(raw)

\* get_one skipped a first candidate row that does not map and returned the
\* one after it.
C14_Witness ==
  /\ slast.op = "get_one"
  /\ slast.end.out = "return"
  /\ Len(slast.raw) > 1
  /\ 1 \notin Mapping(slast.raw)
  /\ slast.end.value = Ok(FirstMapped(slast.raw))

\* The candidate rows that map, in result order, as rows of the row type.
MappedRows(raw) ==
  LET idx == SelectSeq([i \in 1..Len(raw) |-> i],
                       LAMBDA i : i \in Mapping(raw))
  IN [k \in 1..Len(idx) |-> model_validate_row(store, raw[idx[k]]).value]

\* The statement of the last call was executed in a write scope that
\* committed: slast.raw holds the rows the engine returned.
Fetched == slast.conn = <<"execute_fetchall">> \o WriterExit(FALSE, "ok")

NonKeyColumns == Range(store.columns) \ {ID_COLUMN}

\* C16: for every store configuration (a column set with the key column,
\* either policy) and every non-empty list of rows, the insert statement
\* built by add and add_many renders and holds an ON CONFLICT clause whose
\* target is the key column, the action of the policy (DO NOTHING, or DO
\* UPDATE SET over every non-key column) and a RETURNING clause listing the
\* column set.
C16_InsertStatementRenders ==
  (slast.op \in {"add", "add_many"} /\ slast.rows # <<>>) =>
    LET sql == slast.stmt.sql
    IN /\ slast.stmt # NoStatement
       /\ HasToken(sql, "ON CONFLICT")
       /\ ConflictCols(sql) = {ID_COLUMN}
       /\ IF store.policy = "do_nothing"
          THEN HasToken(sql, "DO NOTHING") /\ ~HasToken(sql, "DO UPDATE SET")
          ELSE /\ ~HasToken(sql, "DO NOTHING")
               /\ HasToken(sql, "DO UPDATE SET")
               /\ UpdateCols(sql) = NonKeyColumns
       /\ ReturningCols(sql) = store.columns

\* The last call raised the usage error before doing anything else.
UsageError ==
  /\ slast.end = ArgError
  /\ slast.scope = "none"
  /\ slast.conn = <<>>
  /\ slast.stmt = NoStatement
  /\ stored = slast.before

\* The last call is a select operation.
IsSelect == slast.op \in {"_get", "get", "get_one", "get_one_or_none",
                          "get_last"}

\* C17 (as stated): supplying column names without a table name to a select
\* or insert operation is a usage error raised before any statement is built
\* or sent to the engine (no scope is entered, stored data is unchanged);
\* supplying column names together with a table name selects those columns
\* from that table.
C17_ColumnNamesNeedTableName ==
  (slast.op # "init" /\ slast.column_names.given) =>
    IF slast.table_name = "None" THEN UsageError
    ELSE IsSelect =>
           /\ slast.stmt.kind = "select"
           /\ slast.stmt.table = slast.table_name
           /\ slast.stmt.columns = slast.column_names.names

\* C17 (amended): column names (a list, empty or not) without a table name
\* are a usage error raised before any statement is built or sent, for
\* select and insert operations alike; a non-empty list of column names with
\* a table name selects those columns from that table, and an empty list
\* with a table name selects the columns of the row type from that table.
C17_NonEmptyColumnNamesAreSelected ==
  (slast.op # "init" /\ slast.column_names.given) =>
    IF slast.table_name = "None" THEN UsageError
    ELSE IsSelect =>
           /\ slast.stmt.kind = "select"
           /\ slast.stmt.table = slast.table_name
           /\ slast.stmt.columns =
                IF slast.column_names.names = <<>> THEN store.columns
                ELSE slast.column_names.names

\* _get with a table name and one of the two columns of the row type sent a
\* statement selecting that column, and the rows returned hold it alone.
C17_Witness ==
  /\ slast.op = "_get"
  /\ slast.table_name = TABLE_NAME
  /\ slast.column_names = GivenNames(<<ID_COLUMN>>)
  /\ Len(store.columns) > 1
  /\ slast.stmt.columns = <<ID_COLUMN>>
  /\ slast.raw # <<>>
  /\ \A i \in 1..Len(slast.raw) : DOMAIN slast.raw[i] = {ID_COLUMN}

\* C18: in get_last the filters sent to the engine are the caller's filters
\* merged with the last-inserted-rowid filter of get_last, and when the
\* caller gives a filter under the same key (rowid) the caller's value is the
\* one bound.
C18_GetLastMergesFilters ==
  (slast.op = "get_last" /\ slast.stmt # NoStatement) =>
    LET bound == slast.stmt.parameters
        given == slast.filters
    IN /\ DOMAIN bound = {"rowid"} \cup DictKeys(given)
       /\ WhereCols(slast.stmt.sql) = DOMAIN bound
       /\ \A k \in DictKeys(given) : bound[k] = DictGet(given, k)
       /\ "rowid" \notin DictKeys(given) =>
            bound["rowid"] = DictGet(LastRowidFilter, "rowid")

\* get_last was called with a rowid filter and another filter, the rowid
\* bound is the caller's, and the row of that rowid came back.
C18_Witness ==
  /\ slast.op = "get_last"
  /\ "rowid" \in DictKeys(slast.filters)
  /\ Len(slast.filters) > 1
  /\ slast.stmt # NoStatement
  /\ slast.stmt.parameters["rowid"] = DictGet(slast.filters, "rowid")
  /\ slast.raw # <<>>
  /\ \A i \in 1..Len(slast.raw) :
       \E j \in 1..Len(stored) :
         /\ stored[j]["rowid"] = DictGet(slast.filters, "rowid")
         /\ stored[j][ID_COLUMN] = slast.raw[i][ID_COLUMN]

----------------------------------------------------------------------------
(* Claims about placeholders and parameters *)

\* The placeholder names in the text of the statement handed to the
\* connection: those of the VALUES tuples of an insert, those of the WHERE
\* criteria of a select.
Placeholders(stmt) ==
  IF stmt.kind = "insert"
    THEN {stmt.values[n][i] :
            n \in 1..Len(stmt.values), i \in 1..Len(stmt.columns)}
    ELSE WhereCols(stmt.sql)

\* C26: for every statement the store builds, the placeholder names in the
\* text are exactly the keys of the parameter mapping; an insert of n rows
\* over m distinct columns binds n*m distinct keys <column>_<rowIndex>, each
\* to the value of that column in that row, and a select binds exactly the
\* names of its filter columns.
C26_PlaceholdersMatchParameters ==
  slast.op # "init" /\ slast.op # "create" /\ slast.stmt.kind # "none" =>
    LET stmt == slast.stmt
        m == Len(stmt.columns)
    IN /\ Placeholders(stmt) = DOMAIN stmt.parameters
       /\ stmt.kind = "insert" =>
            /\ Cardinality(DOMAIN stmt.parameters) = Len(slast.rows) * m
            /\ Len(stmt.values) = Len(slast.rows)
            /\ \A n \in 1..Len(slast.rows) : \A i \in 1..m :
                 /\ stmt.values[n][i]
                      = stmt.columns[i] \o "_" \o ToString(n - 1)
                 /\ stmt.parameters[stmt.values[n][i]]
                      = row_dict(slast.rows[n])[stmt.columns[i]]
       /\ stmt.kind = "select" =>
            DOMAIN stmt.parameters
              = DictKeys(slast.filters)
                \cup (IF slast.op = "get_last" THEN {"rowid"} ELSE {})

\* An insert of two rows over two columns was handed to the connection, and
\* the two rows differ in a column.
C26_Witness ==
  /\ slast.op = "add_many"
  /\ slast.stmt.kind = "insert"
  /\ Len(slast.rows) = 2
  /\ Len(slast.stmt.columns) = 2
  /\ Cardinality(DOMAIN slast.stmt.parameters) = 4
  /\ \E c \in Range(slast.stmt.columns) : slast.rows[1][c] # slast.rows[2][c]

----------------------------------------------------------------------------
(* Claims about DBWrapper.close *)

\* C21: close() is idempotent: over any sequence of close() calls (also the
\* ones made by leaving the wrapper's `async with` scope, normally or by an
\* error, after an explicit close) the connection is closed at most once,
\* and every call after the first is a no-op that raises nothing.
C21_CloseIsIdempotent ==
  /\ db.closes <= 1
  /\ (dlast.op \in {"close", "aexit"} /\ dlast.before.calls > 0) =>
       /\ dlast.end = Return("None")
       /\ db.closes = dlast.before.closes
       /\ db.handle = dlast.before.handle
       /\ dlast.leaves = dlast.how

\* The `async with` scope was left by an error after close() had closed the
\* connection: __aexit__ closed nothing and the error of the body went on.
C21_Witness ==
  /\ dlast.op = "aexit"
  /\ dlast.how = "Exception"
  /\ dlast.before.closes = 1
  /\ db.closes = 1
  /\ dlast.end = Return("None")
  /\ dlast.leaves = "Exception"

----------------------------------------------------------------------------
(* Claims about BaseStore.create *)

\* The first statement of the list that fails, 0 when none does.
FirstFailing(ddl) ==
  IF \A k \in 1..Len(ddl) : ddl[k].fails = "none" THEN 0
  ELSE CHOOSE k \in 1..Len(ddl) :
         /\ ddl[k].fails # "none"
         /\ \A j \in 1..(k - 1) : ddl[j].fails = "none"

\* C23: store creation executes the declared DDL statements one at a time in
\* declaration order inside one write scope; when statement k fails, the
\* failure is logged with the statement's text and raised again, no statement
\* after k is executed, the scope rolls back instead of committing and no
\* store is returned; when all succeed the scope commits exactly once.
C23_CreateRunsDdlInOneScope ==
  slast.op = "create" =>
    LET ddl == slast.ddl
        k == FirstFailing(ddl)
    IN IF k = 0
         THEN /\ slast.executed = [i \in 1..Len(ddl) |-> ddl[i].sql]
              /\ slast.logged = <<>>
              /\ slast.conn = <<"commit">>
              /\ slast.end = Return("store")
         ELSE /\ slast.executed = [i \in 1..k |-> ddl[i].sql]
              /\ slast.logged = <<ddl[k].sql>>
              /\ slast.conn = <<"rollback">>
              /\ slast.end = Raised(Error(ddl[k].fails, "msg"))

----------------------------------------------------------------------------
(* Claims about nested and interleaved writer() scopes *)

\* The last step left the outermost writer() scope of its task by an error.
OutermostRaised ==
  /\ last.ev = "exit"
  /\ last.how # "ok"
  /\ stack[last.task] = <<>>

\* C27: a writer() scope is atomic with everything nested in it: when the
\* body of the outermost scope raises, no write made inside it stays
\* committed, also not a write of an inner writer() scope that returned, and
\* also not when the inner scope was entered before the outer body executed
\* a statement of its own.  The committed state is then the one the
\* outermost scope found when it was entered.
C27_OutermostScopeIsAtomic ==
  OutermostRaised => committed = last.snap

\* C28: when two tasks that share one wrapper each run a top-level writer()
\* scope and their bodies interleave, the outcome of a scope applies to its
\* own statements only: the writes of a scope whose body returned are
\* committed when the scope is left, and the writes of a scope whose body
\* raised are not committed.
C28_ScopeOutcomeIsItsOwn ==
  (last.ev = "exit" /\ stack[last.task] = <<>>) =>
    IF last.how = "ok" THEN last.wrote \subseteq committed
    ELSE (last.wrote \ last.snap) \cap committed = {}

----------------------------------------------------------------------------
(* Claims about results.py *)

\* The error e matches one of the configured kinds.
MatchesKinds(cfg, e) ==
  \E k \in 1..Len(cfg.kinds) : cfg.kinds[k] \in Bases(e.cls)

\* C19: the wrapper made by returns_result returns Ok(value) when the wrapped
\* call returns; when it raises e, the wrapper returns Err(e) if e matches a
\* configured kind (one class or one of a tuple of classes) and lets e
\* propagate unchanged if it matches none; with no kinds configured every
\* error derived from Exception is captured.
C19_CapturesConfiguredKindsOnly ==
  rlast.op = "returns_result" =>
    IF rlast.body.out = "return"
    THEN rlast.end = Return(Ok(rlast.body.value))
    ELSE IF rlast.cfg.form = "None"
    THEN "Exception" \in Bases(rlast.body.err.cls) =>
           rlast.end = Return(Err(rlast.body.err))
    ELSE IF MatchesKinds(rlast.cfg, rlast.body.err)
    THEN rlast.end = Return(Err(rlast.body.err))
    ELSE rlast.end = Raised(rlast.body.err)

\* C20: unwrap returns the value of an Ok and raises the error of an Err;
\* unwrap_or(d) returns the value of an Ok and d for an Err; unwrap_or_else(f)
\* returns the value of an Ok whatever f is and ends as f(error) does for an
\* Err; on an Err unwrap_or never raises, and unwrap_or_else raises only what
\* f raises.
C20_UnwrapFamily ==
  rlast.op \in {"unwrap", "unwrap_or", "unwrap_or_else"} =>
    LET r == rlast.result
    IN IF r.variant = "Ok" THEN rlast.end = Return(r.value)
       ELSE CASE rlast.op = "unwrap" -> rlast.end = Raised(r.err)
              [] rlast.op = "unwrap_or" -> rlast.end = Return(rlast.default)
              [] OTHER ->
                   /\ rlast.end = rlast.callback[r.err.cls]
                   /\ rlast.end.out = "raise" =>
                        rlast.callback[r.err.cls].out = "raise"

\* unwrap_or(d) was called on an Err and returned d.
C20_Witness ==
  /\ rlast.op = "unwrap_or"
  /\ rlast.result.variant = "Err"
  /\ rlast.end = Return(rlast.default)

====
